---- MODULE Spec2Model ----
(***************************************************************************)
(* Model of the CLI runner of openclaw: the run registry                   *)
(* (pi-cli-runner/runs.ts, held in src/src/agents/cli-session-map.ts) and  *)
(* the two streaming "spawn and stream" runners, the pipe variant          *)
(* (src/unnamed/part_000) and the pseudo-terminal variant                  *)
(* (src/unnamed/part_001).                                                 *)
(*                                                                         *)
(* A run is the closure created by one call of runCliAgent; its handle is  *)
(* identified by the run's slot id, so two handles are identical (===) iff *)
(* their ids are equal.  A slot is given back once the closure can no      *)
(* longer act (no pending child event, no armed timer, handle not          *)
(* registered); the run as it was when finalize ran is kept in `settled`   *)
(* for the step in which finalize ran.  Waiters are treated alike: the     *)
(* waiters resolved by a step are kept in `released` for that step.        *)
(*                                                                         *)
(* A timer is "armed" from setTimeout until its callback runs ("fired") or *)
(* clearTimeout cancels it ("cleared"); an armed timer may fire at any     *)
(* later step, its delay is kept as the argument handed to setTimeout.     *)
(***************************************************************************)
EXTENDS Integers, Sequences, FiniteSets, TLC

\* ------------------------------------------------------------------ bounds
Sessions == {"s1", "s2"}
MaxRuns == 2
MaxWaiters == 2
MaxConcurrentRuns == 1

RunIds == 1..MaxRuns
WaiterIds == 1..MaxWaiters

\* inputs enumerated for the timeout arguments; an argument list is << >>
\* when the optional argument is left out and <<t>> when it is given
RunTimeouts == {-1, 0, 200}
WaitTimeouts == {-5, 0, 250}
Omitted == << >>
Variants == {"pipe", "pty"}

\* lengths of the tool-result contents that are enumerated
ToolContentLengths == {0, 1, 200, 201, 300}

\* lines read from one child
MaxLines == 3

\* calls of runCliAgent that are in flight together, the backends they
\* name and the serialize field of the descriptor they resolve: << >> when
\* the descriptor has no such field
MaxCalls == 3

\* calls of appendMessageToTranscriptAsync that are in flight together
MaxAppends == 3
AppendCallIds == 1..MaxAppends
Backends == {"claude-cli", "codex-cli"}
SerializeFlags == {Omitted, <<TRUE>>, <<FALSE>>}

\* ------------------------------------------------------- program constants
\* event.content.length > 200, event.content.slice(0, 200)
ToolSummaryMax == 200
DefaultWaitTimeoutMs == 15000
MinWaitTimeoutMs == 100
StderrSummaryMax == 500
SpawnFailCode == -2
SignalExitCode == -1

\* ------------------------------------------------------------------- state
VARIABLES ACTIVE_CLI_RUNS, CLI_RUN_WAITERS, runs, waiters,
          lastCall, settled, released, variant, CLI_RUN_QUEUE,
          backendCall, agentCall,
          sessionWriteLocks, appendCalls, transcripts

vars == <<ACTIVE_CLI_RUNS, CLI_RUN_WAITERS, runs, waiters,
          lastCall, settled, released, variant, CLI_RUN_QUEUE,
          backendCall, agentCall,
          sessionWriteLocks, appendCalls, transcripts>>

\* the transcript writer: its lock map, its calls in flight and the files
lockVars == <<sessionWriteLocks, appendCalls, transcripts>>

\* the calls of the pure functions and the transcript writer, which no step
\* of a run touches
callVars == <<backendCall, agentCall, lockVars>>

\* ----------------------------------------------------------------- helpers
Max(a, b) == IF a >= b THEN a ELSE b

SetMin(S) == CHOOSE x \in S : \A y \in S : x <= y

\* String.prototype.trim on the strings that are enumerated (blanks only)
RECURSIVE TrimStart(_)
TrimStart(str) ==
  IF Len(str) > 0 /\ SubSeq(str, 1, 1) = " "
  THEN TrimStart(SubSeq(str, 2, Len(str)))
  ELSE str

RECURSIVE TrimEnd(_)
TrimEnd(str) ==
  IF Len(str) > 0 /\ SubSeq(str, Len(str), Len(str)) = " "
  THEN TrimEnd(SubSeq(str, 1, Len(str) - 1))
  ELSE str

Trim(str) == TrimEnd(TrimStart(str))

\* String.prototype.includes
Contains(text, part) ==
  \E i \in 1..(Len(text) - Len(part) + 1) :
    SubSeq(text, i, i + Len(part) - 1) = part

\* Map<K,V> as a function whose DOMAIN is the set of keys present
EmptyMap == [k \in {} |-> 0]

MapHas(m, k) == k \in DOMAIN m

MapSet(m, k, v) == [x \in (DOMAIN m) \cup {k} |-> IF x = k THEN v ELSE m[x]]

MapDelete(m, k) == [x \in (DOMAIN m) \ {k} |-> m[x]]

\* the API call made by the current step, what it returned and how many
\* termination signals it sent
NoCall == [op |-> "none", sid |-> "", ret |-> "none", signals |-> 0]

NoResult == [payloads |-> << >>, aborted |-> FALSE, sessionId |-> ""]

UnusedRun ==
  [used |-> FALSE, id |-> 0, sessionId |-> "", timeoutMs |-> 0,
   isStreaming |-> FALSE, aborted |-> FALSE, timeoutId |-> "undefined",
   kills |-> 0, abortRequested |-> FALSE, timerAborts |-> 0,
   child |-> "none", ignoresSigterm |-> FALSE, exitCode |-> 0, stderrBuffer |-> "",
   errorPending |-> FALSE, closePending |-> FALSE, disposed |-> FALSE,
   resolvedSessionId |-> "", currentTextBuffer |-> "", collectedTexts |-> << >>,
   dataBuffer |-> << >>, lineLog |-> << >>, callbacks |-> << >>, threw |-> FALSE,
   finalizes |-> 0, resolved |-> FALSE, result |-> NoResult]

UnusedWaiter ==
  [used |-> FALSE, id |-> 0, sessionId |-> "", timeoutArg |-> << >>, delay |-> 0,
   timer |-> "none", resolves |-> 0, value |-> "pending"]

\* a waiter's closure is garbage once its timer is not armed and no
\* wait-list holds it
ReclaimWaiters(ws, waitLists) ==
  [w \in WaiterIds |->
     IF /\ ws[w].used
        /\ ws[w].timer # "armed"
        /\ \A k \in DOMAIN waitLists : w \notin waitLists[k]
     THEN UnusedWaiter
     ELSE ws[w]]

\* a run's closure is garbage once it has resolved its promise, no child
\* event is pending, its timer is not armed and its handle is not registered
ReclaimRun(rr, active) ==
  IF /\ rr.resolved
     /\ ~rr.errorPending
     /\ ~rr.closePending
     /\ rr.timeoutId # "armed"
     /\ \A k \in DOMAIN active : active[k] # rr.id
  THEN UnusedRun
  ELSE rr

\* ------------------------------------------------------- registry (runs.ts)
isCliRunActive(sessionId) == MapHas(ACTIVE_CLI_RUNS, sessionId)

isCliRunStreaming(sessionId) ==
  IF MapHas(ACTIVE_CLI_RUNS, sessionId)
  THEN runs[ACTIVE_CLI_RUNS[sessionId]].isStreaming
  ELSE FALSE

\* waiter.resolve(v): a promise keeps the value of its first resolve
ResolveWaiter(wr, v) ==
  [wr EXCEPT !.resolves = @ + 1,
             !.value = IF wr.resolves = 0 THEN v ELSE @]

\* clearTimeout(timer)
ClearTimer(timer) == IF timer = "armed" THEN "cleared" ELSE timer

\* the default parameter: timeoutMs = 15_000
WaitTimeoutParam(timeoutArg) ==
  IF timeoutArg = Omitted THEN DefaultWaitTimeoutMs ELSE timeoutArg[1]

\* mutant: the requested timeout is used as it is
WaitTimerDelay_noFloor(timeoutMs) == timeoutMs

\* Math.max(100, timeoutMs)
WaitTimerDelay(timeoutMs) == Max(MinWaitTimeoutMs, timeoutMs)

WaitersOf(sessionId) ==
  IF MapHas(CLI_RUN_WAITERS, sessionId) THEN CLI_RUN_WAITERS[sessionId] ELSE {}

\* mutant: the waiters are resolved but their timers are left running
notifyCliRunEnded_keepsTimers(sessionId) ==
  IF WaitersOf(sessionId) = {}
  THEN /\ UNCHANGED <<CLI_RUN_WAITERS, waiters>>
       /\ released' = {}
  ELSE LET ended == [w \in WaitersOf(sessionId) |-> ResolveWaiter(waiters[w], "true")]
       IN /\ CLI_RUN_WAITERS' = MapDelete(CLI_RUN_WAITERS, sessionId)
          /\ released' = {ended[w] : w \in WaitersOf(sessionId)}
          /\ waiters' = ReclaimWaiters(
               [w \in WaiterIds |->
                  IF w \in WaitersOf(sessionId) THEN ended[w] ELSE waiters[w]],
               CLI_RUN_WAITERS')

\* mutant: the end of a run releases the waiters of every key
notifyCliRunEnded_everyKey(sessionId) ==
  LET all == UNION {CLI_RUN_WAITERS[k] : k \in DOMAIN CLI_RUN_WAITERS}
      ended == [w \in all |->
                  ResolveWaiter([waiters[w] EXCEPT !.timer = ClearTimer(@)], "true")]
  IN /\ CLI_RUN_WAITERS' = EmptyMap
     /\ released' = {ended[w] : w \in all}
     /\ waiters' = ReclaimWaiters(
          [w \in WaiterIds |-> IF w \in all THEN ended[w] ELSE waiters[w]],
          CLI_RUN_WAITERS')

\* notifyCliRunEnded: delete the key, then for every waiter of the set
\* clearTimeout(waiter.timer) and waiter.resolve(true)
notifyCliRunEnded(sessionId) ==
  IF WaitersOf(sessionId) = {}
  THEN /\ UNCHANGED <<CLI_RUN_WAITERS, waiters>>
       /\ released' = {}
  ELSE LET ended == [w \in WaitersOf(sessionId) |->
                       ResolveWaiter(
                         [waiters[w] EXCEPT !.timer = ClearTimer(@)], "true")]
       IN /\ CLI_RUN_WAITERS' = MapDelete(CLI_RUN_WAITERS, sessionId)
          /\ released' = {ended[w] : w \in WaitersOf(sessionId)}
          /\ waiters' = ReclaimWaiters(
               [w \in WaiterIds |->
                  IF w \in WaitersOf(sessionId) THEN ended[w] ELSE waiters[w]],
               CLI_RUN_WAITERS')

\* mutant: replacing a registration ends the replaced run for its waiters
setActiveCliRun_notifiesOnReplace(sessionId, handle) ==
  /\ ACTIVE_CLI_RUNS' = MapSet(ACTIVE_CLI_RUNS, sessionId, handle)
  /\ IF MapHas(ACTIVE_CLI_RUNS, sessionId)
     THEN notifyCliRunEnded(sessionId)
     ELSE /\ released' = {}
          /\ UNCHANGED <<CLI_RUN_WAITERS, waiters>>

setActiveCliRun(sessionId, handle) ==
  /\ ACTIVE_CLI_RUNS' = MapSet(ACTIVE_CLI_RUNS, sessionId, handle)
  /\ released' = {}
  /\ UNCHANGED <<CLI_RUN_WAITERS, waiters>>

\* mutant: the registration is deleted whatever handle is supplied
clearActiveCliRun_ignoresHandle(sessionId, handle) ==
  IF MapHas(ACTIVE_CLI_RUNS, sessionId)
  THEN /\ ACTIVE_CLI_RUNS' = MapDelete(ACTIVE_CLI_RUNS, sessionId)
       /\ notifyCliRunEnded(sessionId)
  ELSE /\ UNCHANGED <<ACTIVE_CLI_RUNS, CLI_RUN_WAITERS, waiters>>
       /\ released' = {}

clearActiveCliRun(sessionId, handle) ==
  IF MapHas(ACTIVE_CLI_RUNS, sessionId) /\ ACTIVE_CLI_RUNS[sessionId] = handle
  THEN /\ ACTIVE_CLI_RUNS' = MapDelete(ACTIVE_CLI_RUNS, sessionId)
       /\ notifyCliRunEnded(sessionId)
  ELSE /\ UNCHANGED <<ACTIVE_CLI_RUNS, CLI_RUN_WAITERS, waiters>>
       /\ released' = {}

\* mutant: the message is reported as queued when a run is registered
queueCliMessage_forwards(sessionId, text) ==
  /\ lastCall' = [op |-> "queue", sid |-> sessionId,
                  ret |-> IF MapHas(ACTIVE_CLI_RUNS, sessionId) THEN "true" ELSE "false",
                  signals |-> 0]
  /\ settled' = UnusedRun
  /\ released' = {}
  /\ UNCHANGED <<ACTIVE_CLI_RUNS, CLI_RUN_WAITERS, runs, waiters, variant, CLI_RUN_QUEUE, callVars>>

queueCliMessage(sessionId, text) ==
  /\ lastCall' = [op |-> "queue", sid |-> sessionId, ret |-> "false", signals |-> 0]
  /\ settled' = UnusedRun
  /\ released' = {}
  /\ UNCHANGED <<ACTIVE_CLI_RUNS, CLI_RUN_WAITERS, runs, waiters, variant, CLI_RUN_QUEUE, callVars>>

\* mutant: no guard on `aborted`, every call signals the child
HandleAbort_killsAgain(rr) ==
  [rr EXCEPT !.aborted = TRUE, !.isStreaming = FALSE, !.kills = @ + 1]

\* mutant: abort signals the child and leaves the streaming flag set
HandleAbort_keepsStreaming(rr) ==
  IF ~rr.aborted
  THEN [rr EXCEPT !.aborted = TRUE, !.kills = @ + 1]
  ELSE rr

\* handle.abort of a run (part_000:59-66, part_001:112-119)
HandleAbort(rr) ==
  IF ~rr.aborted
  THEN [rr EXCEPT !.aborted = TRUE, !.isStreaming = FALSE, !.kills = @ + 1]
  ELSE rr

\* handle.queueMessage: async () => {} (part_000:68-70, part_001:121-123)
HandleQueueMessage(r) ==
  /\ runs[r].used
  /\ lastCall' = [op |-> "handle.queueMessage", sid |-> runs[r].sessionId,
                  ret |-> "undefined", signals |-> 0]
  /\ settled' = UnusedRun
  /\ released' = {}
  /\ UNCHANGED <<ACTIVE_CLI_RUNS, CLI_RUN_WAITERS, runs, waiters, variant, CLI_RUN_QUEUE, callVars>>

\* mutant: abort also takes the run out of the registry
abortCliRun_alsoClears(sessionId) ==
  /\ IF ~MapHas(ACTIVE_CLI_RUNS, sessionId)
     THEN /\ lastCall' = [op |-> "abort", sid |-> sessionId, ret |-> "false",
                          signals |-> 0]
          /\ released' = {}
          /\ UNCHANGED <<runs, ACTIVE_CLI_RUNS, CLI_RUN_WAITERS, waiters>>
     ELSE LET handle == ACTIVE_CLI_RUNS[sessionId] IN
          /\ runs' = [runs EXCEPT ![handle] =
                        [HandleAbort(runs[handle]) EXCEPT !.abortRequested = TRUE]]
          /\ lastCall' = [op |-> "abort", sid |-> sessionId, ret |-> "true",
                          signals |-> runs'[handle].kills - runs[handle].kills]
          /\ clearActiveCliRun(sessionId, handle)
  /\ settled' = UnusedRun
  /\ UNCHANGED <<variant, CLI_RUN_QUEUE, callVars>>

abortCliRun(sessionId) ==
  /\ IF ~MapHas(ACTIVE_CLI_RUNS, sessionId)
     THEN /\ lastCall' = [op |-> "abort", sid |-> sessionId, ret |-> "false", signals |-> 0]
          /\ UNCHANGED runs
     ELSE LET handle == ACTIVE_CLI_RUNS[sessionId] IN
          /\ runs' = [runs EXCEPT ![handle] =
                        [HandleAbort(runs[handle]) EXCEPT !.abortRequested = TRUE]]
          /\ lastCall' = [op |-> "abort", sid |-> sessionId, ret |-> "true",
                          signals |-> runs'[handle].kills - runs[handle].kills]
  /\ settled' = UnusedRun
  /\ released' = {}
  /\ UNCHANGED <<ACTIVE_CLI_RUNS, CLI_RUN_WAITERS, waiters, variant, CLI_RUN_QUEUE, callVars>>

FreeWaiters == {w \in WaiterIds : ~waiters[w].used}

\* mutant: a waiter is registered without looking at the registry
waitForCliRunEnd_alwaysWaits(sessionId, timeoutArg) ==
  /\ FreeWaiters # {}
  /\ LET w == SetMin(FreeWaiters)
         waiter == [used |-> TRUE, id |-> w, sessionId |-> sessionId,
                    timeoutArg |-> timeoutArg,
                    delay |-> WaitTimerDelay(WaitTimeoutParam(timeoutArg)),
                    timer |-> "armed", resolves |-> 0, value |-> "pending"]
     IN /\ CLI_RUN_WAITERS' =
             MapSet(CLI_RUN_WAITERS, sessionId, WaitersOf(sessionId) \cup {w})
        /\ waiters' = [waiters EXCEPT ![w] = waiter]
  /\ released' = {}
  /\ lastCall' = [op |-> "waitForEnd", sid |-> sessionId, ret |-> "pending",
                  signals |-> 0]
  /\ settled' = UnusedRun
  /\ UNCHANGED <<ACTIVE_CLI_RUNS, runs, variant, CLI_RUN_QUEUE, callVars>>

waitForCliRunEnd(sessionId, timeoutArg) ==
  /\ IF sessionId = "" \/ ~MapHas(ACTIVE_CLI_RUNS, sessionId)
     THEN /\ lastCall' = [op |-> "waitForEnd", sid |-> sessionId, ret |-> "true", signals |-> 0]
          /\ released' = {}
          /\ UNCHANGED <<CLI_RUN_WAITERS, waiters>>
     ELSE /\ FreeWaiters # {}
          /\ LET w == SetMin(FreeWaiters)
                 waiter == [used |-> TRUE, id |-> w, sessionId |-> sessionId,
                            timeoutArg |-> timeoutArg,
                            delay |-> WaitTimerDelay(WaitTimeoutParam(timeoutArg)),
                            timer |-> "armed", resolves |-> 0, value |-> "pending"]
                 added == WaitersOf(sessionId) \cup {w}
                 gone == ResolveWaiter([waiter EXCEPT !.timer = ClearTimer(@)], "true")
             IN IF ~MapHas(ACTIVE_CLI_RUNS, sessionId)
                THEN \* lines 106-111: the run is no longer registered
                     /\ CLI_RUN_WAITERS' =
                          IF added \ {w} = {}
                          THEN MapDelete(CLI_RUN_WAITERS, sessionId)
                          ELSE MapSet(CLI_RUN_WAITERS, sessionId, added \ {w})
                     /\ released' = {gone}
                     /\ waiters' = ReclaimWaiters([waiters EXCEPT ![w] = gone],
                                                  CLI_RUN_WAITERS')
                     /\ lastCall' = [op |-> "waitForEnd", sid |-> sessionId,
                                     ret |-> "true", signals |-> 0]
                ELSE /\ CLI_RUN_WAITERS' = MapSet(CLI_RUN_WAITERS, sessionId, added)
                     /\ released' = {}
                     /\ waiters' = [waiters EXCEPT ![w] = waiter]
                     /\ lastCall' = [op |-> "waitForEnd", sid |-> sessionId,
                                     ret |-> "pending", signals |-> 0]
  /\ settled' = UnusedRun
  /\ UNCHANGED <<ACTIVE_CLI_RUNS, runs, variant, CLI_RUN_QUEUE, callVars>>

\* mutant: the key stays in the wait-list map when its last waiter timed out
WaiterTimeout_keepsEmptySet(w) ==
  /\ waiters[w].timer = "armed"
  /\ LET sessionId == waiters[w].sessionId
         rest == WaitersOf(sessionId) \ {w}
         timedOut == ResolveWaiter([waiters[w] EXCEPT !.timer = "fired"], "false")
     IN /\ CLI_RUN_WAITERS' = MapSet(CLI_RUN_WAITERS, sessionId, rest)
        /\ released' = {timedOut}
        /\ waiters' = ReclaimWaiters([waiters EXCEPT ![w] = timedOut],
                                     CLI_RUN_WAITERS')
  /\ lastCall' = NoCall
  /\ settled' = UnusedRun
  /\ UNCHANGED <<ACTIVE_CLI_RUNS, runs, variant, CLI_RUN_QUEUE, callVars>>

\* the setTimeout callback of a waiter (lines 95-100)
WaiterTimeout(w) ==
  /\ waiters[w].timer = "armed"
  /\ LET sessionId == waiters[w].sessionId
         rest == WaitersOf(sessionId) \ {w}
         timedOut == ResolveWaiter([waiters[w] EXCEPT !.timer = "fired"], "false")
     IN /\ CLI_RUN_WAITERS' =
             IF rest = {}
             THEN MapDelete(CLI_RUN_WAITERS, sessionId)
             ELSE MapSet(CLI_RUN_WAITERS, sessionId, rest)
        /\ released' = {timedOut}
        /\ waiters' = ReclaimWaiters([waiters EXCEPT ![w] = timedOut],
                                     CLI_RUN_WAITERS')
  /\ lastCall' = NoCall
  /\ settled' = UnusedRun
  /\ UNCHANGED <<ACTIVE_CLI_RUNS, runs, variant, CLI_RUN_QUEUE, callVars>>

\* ------------------------------------- streaming runners (run.ts variants)
FreeRuns == {r \in RunIds : ~runs[r].used}

LiveRuns == {r \in RunIds : runs[r].used}

\* mutant: the timer is armed whatever the sign of timeoutMs
ArmRunTimer_ignoresSign(timeoutMs) == "armed"

\* if (params.timeoutMs > 0) timeoutId = setTimeout(...)
ArmRunTimer(timeoutMs) == IF timeoutMs > 0 THEN "armed" ELSE "undefined"

\* the Promise executor up to the registration of the event handlers:
\* spawn, build the handle, setActiveCliRun, arm the timer
StartRun(sessionId, timeoutMs, spawnOk) ==
  /\ FreeRuns # {}
  /\ variant = "pty" => spawnOk
  /\ LET r == SetMin(FreeRuns) IN
       /\ runs' = [runs EXCEPT ![r] =
            [UnusedRun EXCEPT !.used = TRUE, !.id = r, !.sessionId = sessionId,
                              !.timeoutMs = timeoutMs,
                              !.isStreaming = TRUE, !.aborted = FALSE,
                              !.resolvedSessionId = sessionId,
                              !.timeoutId = ArmRunTimer(timeoutMs),
                              !.child = IF spawnOk THEN "alive" ELSE "failed",
                              !.errorPending = ~spawnOk]]
       /\ setActiveCliRun(sessionId, r)
  /\ lastCall' = [op |-> "run", sid |-> sessionId, ret |-> "promise", signals |-> 0]
  /\ settled' = UnusedRun
  /\ UNCHANGED <<variant, CLI_RUN_QUEUE, callVars>>

\* mutant: the timeout signals the child without going through handle.abort
RunTimerCallback_killsOnly(rr) ==
  IF rr.isStreaming
  THEN [rr EXCEPT !.isStreaming = FALSE, !.kills = @ + 1, !.timerAborts = @ + 1]
  ELSE rr

\* the setTimeout callback of a run (part_000:76-81, part_001:129-134)
RunTimerCallback(rr) ==
  IF rr.isStreaming
  THEN [HandleAbort(rr) EXCEPT !.timerAborts = @ + 1]
  ELSE rr

\* the 'error' event of a failed spawn is emitted on the next tick, before
\* any timer can run
RunTimerFire(r) ==
  /\ runs[r].timeoutId = "armed"
  /\ ~runs[r].errorPending
  /\ runs' = [runs EXCEPT ![r] =
                [RunTimerCallback(runs[r]) EXCEPT !.timeoutId = "fired"]]
  /\ lastCall' = NoCall
  /\ settled' = UnusedRun
  /\ released' = {}
  /\ UNCHANGED <<ACTIVE_CLI_RUNS, CLI_RUN_WAITERS, waiters, variant, CLI_RUN_QUEUE, callVars>>

\* mutant: finalize delivers the result without clearing the registration
Finalize_noClear(r, rr, result) ==
  LET fin == [rr EXCEPT !.timeoutId = ClearTimer(rr.timeoutId),
                        !.isStreaming = FALSE,
                        !.disposed = (variant = "pty"),
                        !.finalizes = @ + 1,
                        !.resolved = TRUE,
                        !.result = IF rr.resolved THEN @ ELSE result]
  IN /\ released' = {}
     /\ UNCHANGED <<ACTIVE_CLI_RUNS, CLI_RUN_WAITERS, waiters>>
     /\ settled' = fin
     /\ runs' = [runs EXCEPT ![r] = fin]

\* mutant: the pty listeners stay attached after the result is produced
Finalize_noDispose(r, rr, result) ==
  LET fin == [rr EXCEPT !.timeoutId = ClearTimer(rr.timeoutId),
                        !.isStreaming = FALSE,
                        !.finalizes = @ + 1,
                        !.resolved = TRUE,
                        !.result = IF rr.resolved THEN @ ELSE result]
  IN /\ clearActiveCliRun(rr.sessionId, r)
     /\ settled' = fin
     /\ runs' = [runs EXCEPT ![r] = ReclaimRun(fin, ACTIVE_CLI_RUNS')]

\* mutant: a later finalize replaces the result the promise holds
Finalize_lastResultWins(r, rr, result) ==
  LET fin == [rr EXCEPT !.timeoutId = ClearTimer(rr.timeoutId),
                        !.isStreaming = FALSE,
                        !.disposed = (variant = "pty"),
                        !.finalizes = @ + 1,
                        !.resolved = TRUE,
                        !.result = result]
  IN /\ clearActiveCliRun(rr.sessionId, r)
     /\ settled' = fin
     /\ runs' = [runs EXCEPT ![r] = ReclaimRun(fin, ACTIVE_CLI_RUNS')]

\* finalize(result): clearTimeout, isStreaming = false, (pty: dispose the
\* handlers), clearActiveCliRun, resolve(result); rr is the run as the
\* calling handler left it
Finalize(r, rr, result) ==
  LET fin == [rr EXCEPT !.timeoutId = ClearTimer(rr.timeoutId),
                        !.isStreaming = FALSE,
                        !.disposed = (variant = "pty"),
                        !.finalizes = @ + 1,
                        !.resolved = TRUE,
                        !.result = IF rr.resolved THEN @ ELSE result]
  IN /\ clearActiveCliRun(rr.sessionId, r)
     /\ settled' = fin
     /\ runs' = [runs EXCEPT ![r] = ReclaimRun(fin, ACTIVE_CLI_RUNS')]

\* the child process ends: the exit ('close' / onExit) event becomes pending
ExitCodes(rr) ==
  {0, 1} \cup (IF variant = "pipe" /\ rr.kills > 0 THEN {SignalExitCode} ELSE {})

ChildExit(r, code) ==
  /\ runs[r].child = "alive"
  /\ code \in ExitCodes(runs[r])
  /\ runs' = [runs EXCEPT ![r].child = "exited", ![r].exitCode = code,
                          ![r].closePending = TRUE]
  /\ lastCall' = NoCall
  /\ settled' = UnusedRun
  /\ released' = {}
  /\ UNCHANGED <<ACTIVE_CLI_RUNS, CLI_RUN_WAITERS, waiters, variant, CLI_RUN_QUEUE, callVars>>

\* the child process blocks or handles SIGTERM: the disposition that counts
\* is the one in force when the signal is delivered
ChildIgnoresSigterm(r) ==
  /\ runs[r].child = "alive"
  /\ runs[r].kills = 0
  /\ ~runs[r].ignoresSigterm
  /\ runs' = [runs EXCEPT ![r].ignoresSigterm = TRUE]
  /\ lastCall' = NoCall
  /\ settled' = UnusedRun
  /\ released' = {}
  /\ UNCHANGED <<ACTIVE_CLI_RUNS, CLI_RUN_WAITERS, waiters, variant, CLI_RUN_QUEUE, callVars>>

\* a child that has been sent SIGTERM and does not block or handle it ends
SigtermExit(r) ==
  /\ runs[r].kills > 0
  /\ ~runs[r].ignoresSigterm
  /\ ChildExit(r, IF variant = "pipe" THEN SignalExitCode ELSE 1)

\* child.stderr.on("data"): stderrBuffer += chunk
StderrData(r, chunk) ==
  /\ variant = "pipe"
  /\ runs[r].child = "alive" \/ (runs[r].child = "exited" /\ runs[r].closePending)
  /\ runs[r].stderrBuffer = ""
  /\ runs' = [runs EXCEPT ![r].stderrBuffer = @ \o chunk]
  /\ lastCall' = NoCall
  /\ settled' = UnusedRun
  /\ released' = {}
  /\ UNCHANGED <<ACTIVE_CLI_RUNS, CLI_RUN_WAITERS, waiters, variant, CLI_RUN_QUEUE, callVars>>

\* ------------------------------------------------- the child's output
\* A raw line is blank (white space only), not JSON, the JSON literal null,
\* or a JSON object; of a
\* JSON object the fields the handler reads are kept: type, subtype,
\* session_id, and the text it carries (delta.text, message.text or the text
\* of message.content's block, content, result or result.text,
\* error.message) with the shape it comes in.
BlankLine ==
  [kind |-> "blank", type |-> "", subtype |-> "", session_id |-> "",
   shape |-> "", text |-> ""]

NotJsonLine == [BlankLine EXCEPT !.kind = "garbage"]

\* JSON.parse("null") returns null without throwing
NullLine == [BlankLine EXCEPT !.kind = "null"]

JsonLine(type, subtype, session_id, shape, text) ==
  [kind |-> "json", type |-> type, subtype |-> subtype,
   session_id |-> session_id, shape |-> shape, text |-> text]

\* params.onPartialReply / onBlockReply / onToolResult({ text })
Callback(cb, text) == [cb |-> cb, text |-> text]

\* collectedTexts.includes(text)
Includes(texts, text) == \E i \in DOMAIN texts : texts[i] = text

\* case "system"
SystemCase(rr, event) ==
  IF event.subtype = "init" /\ event.session_id # ""
  THEN [rr EXCEPT !.resolvedSessionId = event.session_id]
  ELSE rr

\* mutant: the partial reply is delivered ahead of the callbacks before it
AppendDelta_jumpsQueue(rr, text) ==
  [rr EXCEPT !.currentTextBuffer = @ \o text,
             !.callbacks = <<Callback("onPartialReply", text)>> \o @]

\* currentTextBuffer += text; params.onPartialReply?.({ text })
AppendDelta(rr, text) ==
  [rr EXCEPT !.currentTextBuffer = @ \o text,
             !.callbacks = Append(@, Callback("onPartialReply", text))]

\* case "assistant": the pipe variant reads message.type and message.text,
\* the pty variant the text blocks of message.content
AssistantCase(rr, event) ==
  IF /\ event.shape = (IF variant = "pipe" THEN "text" ELSE "content")
     /\ event.text # ""
  THEN AppendDelta(rr, event.text)
  ELSE rr

\* case "content_block_delta"
DeltaCase(rr, event) ==
  IF event.shape = "text_delta" /\ event.text # ""
  THEN AppendDelta(rr, event.text)
  ELSE rr

\* mutant: the block is delivered but the buffer is not reset
StopCase_keepsBuffer(rr) ==
  IF rr.currentTextBuffer # ""
  THEN [rr EXCEPT !.collectedTexts = Append(@, rr.currentTextBuffer),
                  !.callbacks = Append(@, Callback("onBlockReply", rr.currentTextBuffer))]
  ELSE rr

\* case "content_block_stop"
StopCase(rr) ==
  IF rr.currentTextBuffer # ""
  THEN [rr EXCEPT !.collectedTexts = Append(@, rr.currentTextBuffer),
                  !.callbacks = Append(@, Callback("onBlockReply", rr.currentTextBuffer)),
                  !.currentTextBuffer = ""]
  ELSE rr

\* mutant: content of exactly 200 characters is cut as well
ToolSummary_cutsAtLimit(content) ==
  IF Len(content) >= ToolSummaryMax
  THEN SubSeq(content, 1, ToolSummaryMax) \o "..."
  ELSE content

\* content.length > 200 ? content.slice(0, 200) + "..." : content
ToolSummary(content) ==
  IF Len(content) > ToolSummaryMax
  THEN SubSeq(content, 1, ToolSummaryMax) \o "..."
  ELSE content

\* case "tool_result"
ToolResultCase(rr, event) ==
  IF event.text # ""
  THEN [rr EXCEPT !.callbacks = Append(@, Callback("onToolResult", ToolSummary(event.text)))]
  ELSE rr

\* case "result" of the pipe variant (part_000:145-152): event.result?.text
PipeResultCase(rr, event) ==
  LET r1 == IF event.session_id # ""
            THEN [rr EXCEPT !.resolvedSessionId = event.session_id]
            ELSE rr
      resultText == IF event.shape = "object" THEN event.text ELSE ""
  IN IF resultText # "" /\ ~Includes(r1.collectedTexts, resultText)
     THEN [r1 EXCEPT !.collectedTexts = Append(@, resultText)]
     ELSE r1

\* case "result" of the pty variant (part_001:208-221): result is taken as
\* a string or as { text }
PtyResultCase(rr, event) ==
  LET r1 == IF event.session_id # ""
            THEN [rr EXCEPT !.resolvedSessionId = event.session_id]
            ELSE rr
      resultText == IF event.shape \in {"object", "string"} THEN event.text ELSE ""
  IN IF Len(r1.collectedTexts) = 0 /\ r1.currentTextBuffer = "" /\ resultText # ""
     THEN [r1 EXCEPT !.collectedTexts = Append(@, resultText)]
     ELSE r1

\* case "error"
ErrorCase(rr, event) ==
  [rr EXCEPT !.collectedTexts = Append(@, "Error: " \o event.text)]

\* the body of rl.on("line") (part_000:94-159) and of processLine
\* (part_001:148-228)
ProcessLine(rr, line) ==
  IF line.kind = "blank" THEN rr
  ELSE IF line.kind # "json" THEN rr
  ELSE CASE line.type = "system" -> SystemCase(rr, line)
         [] line.type = "assistant" -> AssistantCase(rr, line)
         [] line.type = "content_block_delta" -> DeltaCase(rr, line)
         [] line.type = "content_block_stop" -> StopCase(rr)
         [] line.type = "tool_result" -> ToolResultCase(rr, line)
         [] line.type = "result" ->
              IF variant = "pipe" THEN PipeResultCase(rr, line)
              ELSE PtyResultCase(rr, line)
         [] line.type = "error" -> ErrorCase(rr, line)
         [] OTHER -> rr

\* event.type read on null (part_000:105, part_001:158) throws a TypeError
\* that nothing in the handler catches
Throws(line) == line.kind = "null"

\* the handler is run on a line: the line joins the run's input history
HandleLine(rr, line) ==
  IF Throws(line)
  THEN [rr EXCEPT !.lineLog = Append(@, line), !.threw = TRUE]
  ELSE [ProcessLine(rr, line) EXCEPT !.lineLog = Append(@, line)]

\* the 'line' event of the pipe variant's readline interface
StdoutLine(r, line) ==
  /\ variant = "pipe"
  /\ runs[r].child = "alive" \/ (runs[r].child = "exited" /\ runs[r].closePending)
  /\ Len(runs[r].lineLog) < MaxLines
  /\ runs' = [runs EXCEPT ![r] = HandleLine(runs[r], line)]
  /\ lastCall' = NoCall
  /\ settled' = UnusedRun
  /\ released' = {}
  /\ UNCHANGED <<ACTIVE_CLI_RUNS, CLI_RUN_WAITERS, waiters, variant, CLI_RUN_QUEUE, callVars>>

\* pty.onData (part_001:231-242): the chunk brings a line's text (a whole
\* line, or none when dataBuffer already holds one) and may end it with a
\* newline; a line is processed once its newline has come
OnData(r, chunk, newline) ==
  /\ variant = "pty"
  /\ runs[r].child = "alive" \/ (runs[r].child = "exited" /\ runs[r].closePending)
  /\ ~runs[r].disposed
  /\ Len(chunk) + Len(runs[r].dataBuffer) = 1
  /\ Len(runs[r].lineLog) < MaxLines
  /\ LET buffered == runs[r].dataBuffer \o chunk IN
       runs' = [runs EXCEPT ![r] =
                  IF newline
                  THEN [HandleLine(runs[r], buffered[1]) EXCEPT !.dataBuffer = << >>]
                  ELSE [runs[r] EXCEPT !.dataBuffer = buffered]]
  /\ newline \/ chunk # << >>
  /\ lastCall' = NoCall
  /\ settled' = UnusedRun
  /\ released' = {}
  /\ UNCHANGED <<ACTIVE_CLI_RUNS, CLI_RUN_WAITERS, waiters, variant, CLI_RUN_QUEUE, callVars>>

\* mutant: data left in the buffer at exit is not looked at
RemainingData_dropped(rr) == rr

\* pty.onExit, "Process any remaining data in buffer":
\* if (dataBuffer.trim()) processLine(dataBuffer.trim())
RemainingData(rr) ==
  IF rr.dataBuffer # << >> /\ rr.dataBuffer[1].kind # "blank"
  THEN HandleLine(rr, rr.dataBuffer[1])
  ELSE rr

TextPayload(text) == [text |-> text, isError |-> FALSE]

\* mutant: text still in the buffer at exit is left out of the result
FlushedTexts_dropsBuffer(rr) == rr.collectedTexts

\* "Flush any remaining text"
FlushedTexts(rr) ==
  IF rr.currentTextBuffer # ""
  THEN Append(rr.collectedTexts, rr.currentTextBuffer)
  ELSE rr.collectedTexts

\* collectedTexts.map((text) => ({ text })); undefined is the empty list
Payloads(texts) == [i \in 1..Len(texts) |-> TextPayload(texts[i])]

RunMeta(rr, payloads) ==
  [payloads |-> payloads, aborted |-> rr.aborted, sessionId |-> rr.resolvedSessionId]

\* stderrBuffer.trim().slice(0, 500)
StderrSummary(text) ==
  LET trimmed == Trim(text)
  IN IF Len(trimmed) > StderrSummaryMax THEN SubSeq(trimmed, 1, StderrSummaryMax) ELSE trimmed

\* child.on("close") of the pipe variant (part_000:166-211)
PipeCloseResult(rr) ==
  LET texts == FlushedTexts(rr)
      payloads == Payloads(texts)
  IN IF rr.exitCode # 0 /\ rr.stderrBuffer # "" /\ ~rr.aborted
     THEN RunMeta(rr, Append(payloads,
            [text |-> "CLI error (exit " \o ToString(rr.exitCode) \o "): "
                      \o StderrSummary(rr.stderrBuffer),
             isError |-> TRUE]))
     ELSE RunMeta(rr, payloads)

OnClose(r) ==
  /\ variant = "pipe"
  /\ runs[r].closePending
  /\ LET rr == [runs[r] EXCEPT !.closePending = FALSE,
                               !.collectedTexts = FlushedTexts(runs[r])]
     IN Finalize(r, rr, PipeCloseResult(runs[r]))
  /\ lastCall' = NoCall
  /\ UNCHANGED <<variant, CLI_RUN_QUEUE, callVars>>

\* mutant: a failed spawn ends the run without a payload
SpawnErrorResult_noPayload(rr) == RunMeta(rr, << >>)

\* the result child.on("error") hands to finalize (part_000:215-226)
SpawnErrorResult(rr) ==
  RunMeta(rr, <<[text |-> "Failed to spawn CLI: ENOENT", isError |-> TRUE]>>)

\* child.on("error") of the pipe variant (part_000:213-227); the 'close'
\* event of the failed child follows it
OnError(r) ==
  /\ variant = "pipe"
  /\ runs[r].errorPending
  /\ LET rr == [runs[r] EXCEPT !.errorPending = FALSE, !.closePending = TRUE,
                               !.exitCode = SpawnFailCode]
     IN Finalize(r, rr, SpawnErrorResult(runs[r]))
  /\ lastCall' = NoCall
  /\ UNCHANGED <<variant, CLI_RUN_QUEUE, callVars>>

\* mutant: the exit-code payload is made for an aborted run as well
PtyExitResult_ignoresAbort(rr) ==
  LET texts == FlushedTexts(rr)
      payloads == Payloads(texts)
  IN IF rr.exitCode # 0 /\ Len(texts) = 0
     THEN RunMeta(rr, <<[text |-> "CLI exited with code " \o ToString(rr.exitCode),
                         isError |-> TRUE]>>)
     ELSE RunMeta(rr, payloads)

\* pty.onExit of the pseudo-terminal variant (part_001:245-283)
PtyExitResult(rr) ==
  LET texts == FlushedTexts(rr)
      payloads == Payloads(texts)
  IN IF rr.exitCode # 0 /\ ~rr.aborted /\ Len(texts) = 0
     THEN RunMeta(rr, <<[text |-> "CLI exited with code " \o ToString(rr.exitCode),
                         isError |-> TRUE]>>)
     ELSE RunMeta(rr, payloads)

OnExit(r) ==
  /\ variant = "pty"
  /\ runs[r].closePending
  /\ ~runs[r].disposed
  /\ LET rem == RemainingData(runs[r])
         rr == [rem EXCEPT !.closePending = FALSE,
                           !.collectedTexts = FlushedTexts(rem)]
     IN IF /\ runs[r].dataBuffer # << >>
           /\ runs[r].dataBuffer[1].kind # "blank"
           /\ Throws(runs[r].dataBuffer[1])
        THEN \* processLine threw: the rest of the exit handler is not run
             /\ runs' = [runs EXCEPT ![r] = [rem EXCEPT !.closePending = FALSE]]
             /\ settled' = UnusedRun
             /\ released' = {}
             /\ UNCHANGED <<ACTIVE_CLI_RUNS, CLI_RUN_WAITERS, waiters>>
        ELSE Finalize(r, rr, PtyExitResult(rem))
  /\ lastCall' = NoCall
  /\ UNCHANGED <<variant, CLI_RUN_QUEUE, callVars>>

\* the pty variant when node-pty cannot be loaded (part_001:63-85):
\* runCliAgent returns an error result; no run is created or registered
PtyLoadFailure(sessionId) ==
  /\ variant = "pty"
  /\ agentCall = NoCall
  /\ agentCall' =
       [op |-> "ptyLoadFailed", sid |-> sessionId,
        result |-> [payloads |-> <<[text |-> "Failed to load PTY: Error", isError |-> TRUE]>>,
                    aborted |-> FALSE, sessionId |-> sessionId]]
  /\ lastCall' = [op |-> "run", sid |-> sessionId, ret |-> "result", signals |-> 0]
  /\ settled' = UnusedRun
  /\ released' = {}
  /\ UNCHANGED <<ACTIVE_CLI_RUNS, CLI_RUN_WAITERS, runs, waiters, variant,
                 CLI_RUN_QUEUE, backendCall, lockVars>>

\* output the pty delivers after its exit event was handled: finalize has
\* disposed the onData listener (part_001:140-141), else the listener
\* would process the line for the run that has settled
LateData(line) ==
  /\ variant = "pty"
  /\ settled.used
  /\ Len(settled.lineLog) < MaxLines
  /\ settled' = IF settled.disposed THEN settled ELSE HandleLine(settled, line)
  /\ lastCall' = [op |-> "lateData", sid |-> settled.sessionId, ret |-> "none", signals |-> 0]
  /\ released' = {}
  /\ UNCHANGED <<ACTIVE_CLI_RUNS, CLI_RUN_WAITERS, runs, waiters, variant,
                 CLI_RUN_QUEUE, callVars>>

\* ------------------------------------------- run queue (cli-runner.ts)
\* const serialize = backend.serialize ?? true
Serialize(flag) == IF flag = Omitted THEN TRUE ELSE flag[1]

\* mutant: every run queues under a key of its own
QueueKey_perRun(backendId, flag, runId) == backendId \o ":" \o runId

\* mutant: every run queues under the backend id
QueueKey_backendOnly(backendId, flag, runId) == backendId

\* const queueKey = serialize ? backendResolved.id
\*                            : `${backendResolved.id}:${params.runId}`
QueueKey(backendId, flag, runId) ==
  IF Serialize(flag) THEN backendId ELSE backendId \o ":" \o runId

\* the runs in flight: a run is in flight from the call of runCliAgent
\* until the function handed to enqueueCliRun has returned or thrown
InFlight ==
  UNION {{[key |-> k, pos |-> i, run |-> CLI_RUN_QUEUE[k][i]] :
            i \in 1..Len(CLI_RUN_QUEUE[k])} : k \in DOMAIN CLI_RUN_QUEUE}

RunIdsInFlight == {q.run.runId : q \in InFlight}

\* enqueueCliRun(key, task) of cli-runner/helpers.ts: one first-in
\* first-out execution slot for each key; the task joins the tail
enqueueCliRun(queue, key, task) ==
  MapSet(queue, key, IF MapHas(queue, key) THEN Append(queue[key], task) ELSE <<task>>)

\* the slot is given to the next task of the key once the task that holds
\* it has settled; a key nobody waits on is dropped
ReleaseSlot(queue, key) ==
  IF Len(queue[key]) = 1 THEN MapDelete(queue, key) ELSE MapSet(queue, key, Tail(queue[key]))

\* runCliAgent up to the call of enqueueCliRun (cli-runner.ts:174-178); the
\* caller names each run with a runId no other run in flight has
runCliAgent(backendId, flag, sessionId, runId) ==
  /\ Cardinality(InFlight) < MaxCalls
  /\ runId \notin RunIdsInFlight
  /\ CLI_RUN_QUEUE' =
       enqueueCliRun(CLI_RUN_QUEUE, QueueKey(backendId, flag, runId),
                     [runId |-> runId, backend |-> backendId, flag |-> flag,
                      sessionId |-> sessionId, phase |-> "queued"])
  /\ lastCall' = [op |-> "runCliAgent", sid |-> "", ret |-> "promise", signals |-> 0]
  /\ settled' = UnusedRun
  /\ released' = {}
  /\ UNCHANGED <<ACTIVE_CLI_RUNS, CLI_RUN_WAITERS, runs, waiters, variant, callVars>>

\* the task that holds the slot of its key starts: the function handed
\* to enqueueCliRun is called and runs its child (cli-runner.ts:178-305)
TaskStart(key) ==
  /\ MapHas(CLI_RUN_QUEUE, key)
  /\ CLI_RUN_QUEUE[key][1].phase = "queued"
  /\ CLI_RUN_QUEUE' =
       [CLI_RUN_QUEUE EXCEPT ![key] = [@ EXCEPT ![1] = [@ EXCEPT !.phase = "executing"]]]
  /\ lastCall' = [op |-> "exec", sid |-> "", ret |-> "none", signals |-> 0]
  /\ settled' = UnusedRun
  /\ released' = {}
  /\ UNCHANGED <<ACTIVE_CLI_RUNS, CLI_RUN_WAITERS, runs, waiters, variant, callVars>>

\* if (result.code !== 0) throw new FailoverError(...) (cli-runner.ts:326)
TaskOutcome(code) == IF code # 0 THEN "threw" ELSE "returned"

\* the child of the executing task has ended with the given code and the
\* function handed to enqueueCliRun returns or throws
TaskSettle(key, code) ==
  /\ MapHas(CLI_RUN_QUEUE, key)
  /\ CLI_RUN_QUEUE[key][1].phase = "executing"
  /\ CLI_RUN_QUEUE' = ReleaseSlot(CLI_RUN_QUEUE, key)
  /\ lastCall' = [op |-> "settle", sid |-> "", ret |-> TaskOutcome(code), signals |-> 0]
  /\ settled' = UnusedRun
  /\ released' = {}
  /\ UNCHANGED <<ACTIVE_CLI_RUNS, CLI_RUN_WAITERS, runs, waiters, variant, callVars>>


\* ------------------------------------- backend descriptors (part_003)
\* a property of an object that is left out (or undefined) is << >> and
\* a property that is given is <<value>>
Undefined == << >>

\* a ?? b
Coalesce(a, b) == IF a # Undefined THEN a ELSE b

\* the properties of a CliBackendConfig that the built-in descriptors or an
\* override set
Fields ==
  {"command", "args", "resumeArgs", "output", "resumeOutput", "input",
   "modelArg", "modelAliases", "sessionArg", "sessionArgs", "sessionMode",
   "sessionIdFields", "systemPromptArg", "systemPromptMode",
   "systemPromptWhen", "imageArg", "imageMode", "clearEnv", "env",
   "serialize", "usageFields", "streaming", "streamingEventTypes",
   "streamingFormat"}

\* an object literal: the properties it names are given, the others not
Object(m) == [f \in Fields |-> IF f \in DOMAIN m THEN <<m[f]>> ELSE Undefined]

\* { ...a, ...b } on two objects
Spread(a, b) == [f \in Fields |-> IF b[f] # Undefined THEN b[f] ELSE a[f]]

\* { ...a, ...b } on two maps, each of which may be undefined
SpreadMaps(a, b) ==
  LET ma == IF a = Undefined THEN EmptyMap ELSE a[1]
      mb == IF b = Undefined THEN EmptyMap ELSE b[1]
  IN [k \in (DOMAIN ma) \cup (DOMAIN mb) |-> IF k \in DOMAIN mb THEN mb[k] ELSE ma[k]]

\* Array.from(new Set(list)): the first occurrence of each element, in order
RECURSIVE Unique(_)
Unique(list) ==
  IF list = << >>
  THEN << >>
  ELSE LET front == Unique(SubSeq(list, 1, Len(list) - 1))
           last == list[Len(list)]
       IN IF \E i \in 1..Len(front) : front[i] = last THEN front ELSE Append(front, last)

CLAUDE_MODEL_ALIASES ==
  "opus" :> "opus" @@ "opus-4.6" :> "opus" @@ "opus-4.5" :> "opus" @@
  "opus-4" :> "opus" @@ "claude-opus-4-6" :> "opus" @@
  "claude-opus-4-5" :> "opus" @@ "claude-opus-4" :> "opus" @@
  "sonnet" :> "sonnet" @@ "sonnet-4.5" :> "sonnet" @@
  "sonnet-4.1" :> "sonnet" @@ "sonnet-4.0" :> "sonnet" @@
  "claude-sonnet-4-5" :> "sonnet" @@ "claude-sonnet-4-1" :> "sonnet" @@
  "claude-sonnet-4-0" :> "sonnet" @@ "haiku" :> "haiku" @@
  "haiku-3.5" :> "haiku" @@ "claude-haiku-3-5" :> "haiku"

DEFAULT_CLAUDE_BACKEND ==
  Object(
    [command |-> "claude",
     args |-> <<"-p", "--output-format", "stream-json",
                "--dangerously-skip-permissions", "--verbose">>,
     resumeArgs |-> <<"-p", "--output-format", "stream-json",
                      "--dangerously-skip-permissions", "--verbose",
                      "--resume", "{sessionId}">>,
     output |-> "jsonl",
     input |-> "arg",
     modelArg |-> "--model",
     modelAliases |-> CLAUDE_MODEL_ALIASES,
     sessionArg |-> "--session-id",
     sessionMode |-> "always",
     sessionIdFields |-> <<"session_id", "sessionId", "conversation_id", "conversationId">>,
     systemPromptArg |-> "--system-prompt",
     systemPromptMode |-> "append",
     systemPromptWhen |-> "always",
     clearEnv |-> <<"ANTHROPIC_API_KEY", "ANTHROPIC_API_KEY_OLD">>,
     serialize |-> TRUE,
     usageFields |->
       [input |-> <<"input_tokens", "inputTokens">>,
        output |-> <<"output_tokens", "outputTokens">>,
        cacheRead |-> <<"cache_read_input_tokens", "cached_input_tokens", "cacheRead">>,
        cacheWrite |-> <<"cache_creation_input_tokens", "cache_write_input_tokens",
                         "cacheWrite">>,
        total |-> <<"total_tokens", "total">>],
     streaming |-> TRUE,
     streamingEventTypes |-> <<"tool_use", "tool_result", "text", "result">>,
     streamingFormat |->
       [text |-> <<[eventTypes |-> <<"assistant">>, contentPath |-> "message.content",
                    matchType |-> "text", textField |-> "text"]>>,
        toolUse |-> <<[eventTypes |-> <<"assistant">>, contentPath |-> "message.content",
                       matchType |-> "tool_use", idField |-> "id", nameField |-> "name",
                       inputField |-> "input"]>>,
        toolResult |-> <<[eventTypes |-> <<"user">>, contentPath |-> "message.content",
                          matchType |-> "tool_result", idField |-> "tool_use_id",
                          outputField |-> "content", isErrorField |-> "is_error"]>>]])

DEFAULT_CODEX_BACKEND ==
  Object(
    [command |-> "codex",
     args |-> <<"exec", "--json", "--color", "never", "--sandbox", "read-only",
                "--skip-git-repo-check">>,
     resumeArgs |-> <<"exec", "resume", "{sessionId}", "--color", "never", "--sandbox",
                      "read-only", "--skip-git-repo-check">>,
     output |-> "jsonl",
     resumeOutput |-> "text",
     input |-> "arg",
     modelArg |-> "--model",
     sessionIdFields |-> <<"thread_id">>,
     sessionMode |-> "existing",
     imageArg |-> "--image",
     imageMode |-> "repeat",
     serialize |-> TRUE,
     usageFields |->
       [input |-> <<"prompt_tokens", "input_tokens">>,
        output |-> <<"completion_tokens", "output_tokens">>,
        total |-> <<"total_tokens">>],
     streaming |-> TRUE,
     streamingEventTypes |-> <<"item", "turn.completed">>,
     streamingFormat |->
       [text |-> <<[eventTypes |-> <<"item.completed">>, contentPath |-> "item",
                    matchType |-> "message", textField |-> "text"]>>,
        toolUse |-> <<[eventTypes |-> <<"item.created", "item.started">>,
                       contentPath |-> "item", matchType |-> "function_call",
                       idField |-> "id", nameField |-> "name",
                       inputField |-> "arguments"]>>,
        toolResult |-> <<[eventTypes |-> <<"item.completed">>, contentPath |-> "item",
                          matchType |-> "function_call_output", idField |-> "call_id",
                          outputField |-> "output"]>>]])

\* a streamingFormat object has the properties text, toolUse and toolResult,
\* each undefined or a map of sub-keys
FormatKinds == {"text", "toolUse", "toolResult"}

\* normalizeProviderId of model-selection.ts on the ids that are
\* enumerated: the id trimmed and in lower case
normalizeProviderId(id) ==
  CASE id = "Claude-CLI" -> "claude-cli"
    [] id = " codex-cli" -> "codex-cli"
    [] id = "My-CLI" -> "my-cli"
    [] OTHER -> id

normalizeBackendKey(key) == normalizeProviderId(key)

\* Object.entries(config) is a sequence of <<key, entry>>; the first entry
\* whose key normalizes to the id, or undefined
pickBackendConfig(config, normalizedId) ==
  LET hits == {i \in 1..Len(config) : normalizeBackendKey(config[i][1]) = normalizedId}
  IN IF hits = {} THEN Undefined ELSE <<config[SetMin(hits)][2]>>

\* mutant: a plain spread, so that a map or list the override gives
\* replaces the built-in one whole
mergeBackendConfig_plainSpread(base, override) ==
  IF override = Undefined
  THEN base
  ELSE Spread(base, override[1])

mergeBackendConfig(base, override) ==
  IF override = Undefined
  THEN base
  ELSE LET o == override[1]
           baseFormat == IF base.streamingFormat = Undefined
                         THEN [k \in FormatKinds |-> Undefined]
                         ELSE base.streamingFormat[1]
       IN [Spread(base, o) EXCEPT
             !.args = Coalesce(o.args, base.args),
             !.env = <<SpreadMaps(base.env, o.env)>>,
             !.modelAliases = <<SpreadMaps(base.modelAliases, o.modelAliases)>>,
             !.clearEnv =
               <<Unique(Coalesce(base.clearEnv, << << >> >>)[1]
                          \o Coalesce(o.clearEnv, << << >> >>)[1])>>,
             !.sessionIdFields = Coalesce(o.sessionIdFields, base.sessionIdFields),
             !.sessionArgs = Coalesce(o.sessionArgs, base.sessionArgs),
             !.resumeArgs = Coalesce(o.resumeArgs, base.resumeArgs),
             !.streaming = Coalesce(o.streaming, base.streaming),
             !.streamingEventTypes =
               Coalesce(o.streamingEventTypes, base.streamingEventTypes),
             !.streamingFormat =
               IF o.streamingFormat # Undefined
               THEN <<[k \in FormatKinds |->
                         <<SpreadMaps(baseFormat[k], o.streamingFormat[1][k])>>]>>
               ELSE base.streamingFormat]

\* const command = config.command?.trim(); if (!command) return null;
\* return { id, config: { ...config, command } }
Null == [isNull |-> TRUE]

\* mutant: the command is taken as it is
WithCommand_unchecked(id, config) ==
  [isNull |-> FALSE, id |-> id, config |-> config]

WithCommand(id, config) ==
  LET command == IF config.command = Undefined THEN "" ELSE Trim(config.command[1])
  IN IF command = ""
     THEN Null
     ELSE [isNull |-> FALSE, id |-> id, config |-> [config EXCEPT !.command = <<command>>]]

resolveCliBackendConfig(provider, configured) ==
  LET normalized == normalizeBackendKey(provider)
      override == pickBackendConfig(configured, normalized)
  IN CASE normalized = "claude-cli" ->
            WithCommand(normalized, mergeBackendConfig(DEFAULT_CLAUDE_BACKEND, override))
       [] normalized = "codex-cli" ->
            WithCommand(normalized, mergeBackendConfig(DEFAULT_CODEX_BACKEND, override))
       [] OTHER ->
            IF override = Undefined THEN Null ELSE WithCommand(normalized, override[1])

\* ------------------------------------ argument choice (cli-runner.ts)
\* the truth value JavaScript gives an optional string or list
TruthyString(value) == value # Undefined /\ value[1] # ""

NonEmptyList(value) == value # Undefined /\ Len(value[1]) > 0

\* resolveSessionIdToSend of cli-runner/helpers.ts: the prior native id
\* when the request has one; without one a fresh id for a descriptor whose
\* session mode is "always", and none otherwise
FreshSessionId == "fresh-uuid"

resolveSessionIdToSend(backend, cliSessionId) ==
  IF TruthyString(cliSessionId)
  THEN [sessionId |-> cliSessionId, isNew |-> FALSE]
  ELSE IF Coalesce(backend.sessionMode, <<"always">>) = <<"always">>
       THEN [sessionId |-> <<FreshSessionId>>, isNew |-> TRUE]
       ELSE [sessionId |-> Undefined, isNew |-> TRUE]

\* mutant: resume whenever the request has a prior id
UseResume_ignoresResumeArgs(backend, cliSessionId, cliSessionIdToSend) ==
  TruthyString(cliSessionId) /\ TruthyString(cliSessionIdToSend)

\* Boolean(params.cliSessionId && cliSessionIdToSend &&
\*         backend.resumeArgs && backend.resumeArgs.length > 0)
UseResume(backend, cliSessionId, cliSessionIdToSend) ==
  /\ TruthyString(cliSessionId)
  /\ TruthyString(cliSessionIdToSend)
  /\ NonEmptyList(backend.resumeArgs)

\* entry.replaceAll(pattern, replacement)
RECURSIVE ReplaceAll(_, _, _)
ReplaceAll(str, pattern, replacement) ==
  IF Len(str) < Len(pattern)
  THEN str
  ELSE IF SubSeq(str, 1, Len(pattern)) = pattern
       THEN replacement
              \o ReplaceAll(SubSeq(str, Len(pattern) + 1, Len(str)), pattern, replacement)
       ELSE SubSeq(str, 1, 1)
              \o ReplaceAll(SubSeq(str, 2, Len(str)), pattern, replacement)

SessionIdPlaceholder == "{sessionId}"

\* baseArgs: useResume ? (backend.resumeArgs ?? backend.args ?? [])
\*                     : (backend.args ?? [])
BaseArgs(backend, useResume) ==
  IF useResume
  THEN Coalesce(backend.resumeArgs, Coalesce(backend.args, << << >> >>))[1]
  ELSE Coalesce(backend.args, << << >> >>)[1]

\* mutant: the resume arguments are passed as the template has them
ResolvedArgs_noSubstitution(backend, useResume, cliSessionIdToSend) ==
  BaseArgs(backend, useResume)

\* resolvedArgs: the base arguments, with the placeholder replaced by the
\* session id to send when resuming
ResolvedArgs(backend, useResume, cliSessionIdToSend) ==
  LET baseArgs == BaseArgs(backend, useResume)
      id == Coalesce(cliSessionIdToSend, <<"">>)[1]
  IN IF useResume
     THEN [i \in 1..Len(baseArgs) |-> ReplaceAll(baseArgs[i], SessionIdPlaceholder, id)]
     ELSE baseArgs

\* ---------------------------------- failed executions (cli-runner.ts)
\* classifyFailoverReason of pi-embedded-helpers.ts on the error texts that
\* are enumerated: the reason whose phrase the text holds, or null
classifyFailoverReason(text) ==
  CASE Contains(text, "unauthorized") -> <<"auth">>
    [] Contains(text, "rate limit") -> <<"rate_limit">>
    [] Contains(text, "quota") -> <<"billing">>
    [] OTHER -> Undefined

\* resolveFailoverStatus of failover-error.ts: the HTTP status a reason
\* stands for, if any
resolveFailoverStatus(reason) ==
  CASE reason = "auth" -> <<401>>
    [] reason = "rate_limit" -> <<429>>
    [] reason = "billing" -> <<402>>
    [] OTHER -> Undefined

\* (params.model ?? "default").trim() || "default"
ModelId(model) ==
  LET trimmed == Trim(Coalesce(model, <<"default">>)[1])
  IN IF trimmed = "" THEN "default" ELSE trimmed

\* new FailoverError(message, { reason, provider, model, status }) with
\* reason = classifyFailoverReason(message) ?? "unknown"
FailoverError(message, provider, modelId) ==
  LET reason == Coalesce(classifyFailoverReason(message), <<"unknown">>)[1]
  IN [kind |-> "thrown", type |-> "FailoverError", message |-> message,
      reason |-> reason, provider |-> provider, model |-> modelId,
      status |-> resolveFailoverStatus(reason)]

Returned(text) == [kind |-> "returned", text |-> text]

\* a || b on strings
OrElse(a, b) == IF a # "" THEN a ELSE b

\* mutant: a failed command is returned with its error text
CommandOutcome_returnsError(result, provider, modelId) ==
  Returned(OrElse(Trim(result.stderr), Trim(result.stdout)))

\* the non-streaming path (cli-runner.ts:300-350) after the command has
\* ended: a non-zero code throws, else the output is returned
CommandOutcome(result, provider, modelId) ==
  LET stdout == Trim(result.stdout)
      stderr == Trim(result.stderr)
  IN IF result.code # 0
     THEN FailoverError(OrElse(stderr, OrElse(stdout, "CLI failed.")), provider, modelId)
     ELSE Returned(stdout)

\* runCliWithStreaming of cli-runner/streaming.ts: rejects with the error
\* text when the child ends with a non-zero code in a run that was not
\* aborted, and resolves with the collected text otherwise
runCliWithStreaming(result) ==
  IF result.code # 0 /\ ~result.aborted
  THEN [rejected |-> TRUE,
        message |-> OrElse(Trim(result.stderr), "CLI exited with code " \o ToString(result.code))]
  ELSE [rejected |-> FALSE, text |-> result.stdout]

\* the streaming path (cli-runner.ts:238-297): the result is returned, an
\* error of runCliWithStreaming is thrown on as a FailoverError
StreamingOutcome(result, provider, modelId) ==
  LET streamResult == runCliWithStreaming(result)
  IN IF streamResult.rejected
     THEN FailoverError(streamResult.message, provider, modelId)
     ELSE Returned(streamResult.text)

\* the function handed to enqueueCliRun, from the choice of the path on,
\* and the catch of runCliAgent, which throws a FailoverError on as it is
\* (cli-runner.ts:373-376) and returns { payloads } for an output
\* (cli-runner.ts:352-353)
ExecutionOutcome(streaming, result, provider, model) ==
  LET modelId == ModelId(model)
      output == IF Coalesce(streaming, <<FALSE>>)[1]
                THEN StreamingOutcome(result, provider, modelId)
                ELSE CommandOutcome(result, provider, modelId)
  IN IF output.kind = "thrown"
     THEN output
     ELSE [kind |-> "returned",
           payloads |-> IF Trim(output.text) # "" THEN <<Trim(output.text)>> ELSE Undefined]

\* ------------------------------------- transcript writer (part_006)
\* a call of appendMessageToTranscriptAsync: where it is, the session, the
\* call whose lock it awaits (0: none), whether its own lock is resolved, how
\* often its append ran and what the append returned
IdleAppend ==
  [pc |-> "idle", sessionId |-> "", pending |-> 0, resolved |-> FALSE,
   appends |-> 0, ok |-> FALSE]

\* appendMessageToTranscriptImpl: synchronous; the entry is added to the
\* file, or the file is missing or cannot be written and { ok: false } is
\* returned
appendMessageToTranscriptImpl(files, c, sessionId, writable) ==
  IF writable
  THEN [files EXCEPT ![sessionId] = Append(@, c)]
  ELSE files

\* mutant: the lock is resolved only after an append that succeeded
ResolvedInFinally_onSuccess(call) == call.ok

\* finally { resolve!() }: the lock is resolved however fn ended
ResolvedInFinally(call) == TRUE

\* withSessionLock from the new lock to `await fn()`: the lock of the call
\* is put in the map and fn runs to its end
TakeLockAndAppend(c, sessionId, writable) ==
  /\ sessionWriteLocks' = MapSet(sessionWriteLocks, sessionId, c)
  /\ transcripts' = appendMessageToTranscriptImpl(transcripts, c, sessionId, writable)
  /\ appendCalls' = [appendCalls EXCEPT ![c] =
                       [@ EXCEPT !.pc = "locked", !.sessionId = sessionId,
                                 !.pending = 0, !.appends = @ + 1, !.ok = writable]]

\* the call, up to its first await
appendMessageToTranscriptAsync(c, sessionId, pathResolved, writable) ==
  /\ appendCalls[c].pc = "idle"
  /\ IF ~pathResolved
     THEN /\ appendCalls' = [appendCalls EXCEPT ![c] = [@ EXCEPT !.pc = "done"]]
          /\ UNCHANGED <<sessionWriteLocks, transcripts>>
     ELSE IF MapHas(sessionWriteLocks, sessionId)
          THEN /\ appendCalls' = [appendCalls EXCEPT ![c] =
                                    [@ EXCEPT !.pc = "pending", !.sessionId = sessionId,
                                              !.pending = sessionWriteLocks[sessionId]]]
               /\ UNCHANGED <<sessionWriteLocks, transcripts>>
          ELSE TakeLockAndAppend(c, sessionId, writable)
  /\ UNCHANGED <<ACTIVE_CLI_RUNS, CLI_RUN_WAITERS, runs, waiters, lastCall, settled,
                 released, variant, CLI_RUN_QUEUE, backendCall, agentCall>>

\* await pending.catch(() => {}) returns once the awaited lock is resolved
PendingResolved(c, writable) ==
  /\ appendCalls[c].pc = "pending"
  /\ appendCalls[appendCalls[c].pending].resolved
  /\ TakeLockAndAppend(c, appendCalls[c].sessionId, writable)
  /\ UNCHANGED <<ACTIVE_CLI_RUNS, CLI_RUN_WAITERS, runs, waiters, lastCall, settled,
                 released, variant, CLI_RUN_QUEUE, backendCall, agentCall>>

\* the finally block after `await fn()`
ReleaseLock(c) ==
  /\ appendCalls[c].pc = "locked"
  /\ LET sessionId == appendCalls[c].sessionId IN
     /\ appendCalls' = [appendCalls EXCEPT ![c] =
                          [@ EXCEPT !.pc = "done",
                                    !.resolved = ResolvedInFinally(appendCalls[c])]]
     /\ sessionWriteLocks' =
          IF MapHas(sessionWriteLocks, sessionId) /\ sessionWriteLocks[sessionId] = c
          THEN MapDelete(sessionWriteLocks, sessionId)
          ELSE sessionWriteLocks
  /\ UNCHANGED <<ACTIVE_CLI_RUNS, CLI_RUN_WAITERS, runs, waiters, lastCall, settled,
                 released, variant, CLI_RUN_QUEUE, backendCall, agentCall, transcripts>>

\* ------------------------------------------------------- specifications
Init ==
  /\ ACTIVE_CLI_RUNS = EmptyMap
  /\ CLI_RUN_WAITERS = EmptyMap
  /\ runs = [r \in RunIds |-> UnusedRun]
  /\ waiters = [w \in WaiterIds |-> UnusedWaiter]
  /\ lastCall = NoCall
  /\ settled = UnusedRun
  /\ released = {}
  /\ variant \in Variants
  /\ CLI_RUN_QUEUE = EmptyMap
  /\ backendCall = NoCall
  /\ agentCall = NoCall
  /\ sessionWriteLocks = EmptyMap
  /\ appendCalls = [c \in AppendCallIds |-> IdleAppend]
  /\ transcripts = [s \in Sessions |-> << >>]

\* --- Spec: the registry, under runs that have no timer and exit with
\* code 0 and waiters that take the default timeout
Run == \E s \in Sessions : StartRun(s, 0, TRUE)

Abort == \E s \in Sessions : abortCliRun(s)

QueueMessage == \E s \in Sessions : queueCliMessage(s, "msg")

QueueOnHandle == \E r \in RunIds : HandleQueueMessage(r)

WaitForEnd == \E s \in Sessions \cup {""} : waitForCliRunEnd(s, Omitted)

WaitTimer == \E w \in WaiterIds : WaiterTimeout(w)

Exit == \E r \in RunIds : ChildExit(r, 0)

Close == \E r \in RunIds : OnClose(r)

PtyExit == \E r \in RunIds : OnExit(r)

Next ==
  \/ Run
  \/ Abort
  \/ QueueMessage
  \/ QueueOnHandle
  \/ WaitForEnd
  \/ WaitTimer
  \/ Exit
  \/ Close
  \/ PtyExit

Spec == Init /\ [][Next]_vars

\* --- SpecRun: the life of a run (timer, aborts, exit codes, stderr, failed
\* spawn) with at most MaxConcurrentRuns runs in flight and no waiter
RunTimed ==
  /\ Cardinality(LiveRuns) < MaxConcurrentRuns
  /\ \E s \in Sessions, t \in RunTimeouts, ok \in BOOLEAN : StartRun(s, t, ok)

RunTimer == \E r \in RunIds : RunTimerFire(r)

ExitAny == \E r \in RunIds, c \in {0, 1, SignalExitCode} : ChildExit(r, c)

Stderr == \E r \in RunIds : StderrData(r, "err")

SpawnError == \E r \in RunIds : OnError(r)

NextRun ==
  \/ RunTimed
  \/ Abort
  \/ QueueMessage
  \/ RunTimer
  \/ ExitAny
  \/ Stderr
  \/ Close
  \/ SpawnError
  \/ PtyExit

SpecRun == Init /\ [][NextRun]_vars

\* --- SpecLive: the life of a run under the scheduling the event loop
\* gives: a pending event handler or a due timer runs, and a child that
\* takes the default action on SIGTERM ends once it is signalled; a child
\* is otherwise free never to exit
IgnoreSigterm == \E r \in RunIds : ChildIgnoresSigterm(r)

KilledChildExits == \E r \in RunIds : SigtermExit(r)

NextLive ==
  \/ RunTimed
  \/ Abort
  \/ RunTimer
  \/ IgnoreSigterm
  \/ KilledChildExits
  \/ ExitAny
  \/ Close
  \/ SpawnError
  \/ PtyExit

SpecLive ==
  /\ Init
  /\ [][NextLive]_vars
  /\ WF_vars(RunTimer)
  /\ WF_vars(KilledChildExits)
  /\ WF_vars(Close)
  /\ WF_vars(SpawnError)
  /\ WF_vars(PtyExit)

\* --- SpecStream: one run at a time reading lines of text, session,
\* result and error events and of lines that are no event
StreamLines ==
  {BlankLine, NotJsonLine, NullLine,
   JsonLine("ping", "", "", "", ""),
   JsonLine("system", "init", "n1", "", ""),
   JsonLine("content_block_delta", "", "", "text_delta", "a"),
   JsonLine("content_block_delta", "", "n2", "text_delta", "b"),
   JsonLine("content_block_stop", "", "", "", ""),
   JsonLine("assistant", "", "", "text", "c"),
   JsonLine("assistant", "", "", "content", "c"),
   JsonLine("result", "", "n3", "object", "R"),
   JsonLine("result", "", "", "object", "a"),
   JsonLine("result", "", "", "string", "S"),
   JsonLine("error", "", "", "", "boom")}

RunAlone ==
  /\ LiveRuns = {}
  /\ \E s \in Sessions : StartRun(s, 0, TRUE)

Line == \E r \in RunIds, l \in StreamLines : StdoutLine(r, l)

Data ==
  \E r \in RunIds, chunk \in {<<l>> : l \in StreamLines} \cup {<< >>},
     newline \in BOOLEAN : OnData(r, chunk, newline)

NextStream ==
  \/ RunAlone
  \/ Line
  \/ Data
  \/ Exit
  \/ Close
  \/ PtyExit

SpecStream == Init /\ [][NextStream]_vars

\* --- SpecTool: one run at a time reading tool-result events among text
\* deltas and block stops
RECURSIVE Repeat(_, _)
Repeat(text, n) ==
  IF n = 0
  THEN ""
  ELSE LET half == Repeat(text, n \div 2)
       IN half \o half \o (IF n % 2 = 1 THEN text ELSE "")

ToolLines ==
  {JsonLine("tool_result", "", "", "", Repeat("x", n)) : n \in ToolContentLengths}
    \cup {JsonLine("content_block_delta", "", "", "text_delta", "a"),
          JsonLine("content_block_stop", "", "", "", "")}

ToolLine == \E r \in RunIds, l \in ToolLines : StdoutLine(r, l)

ToolData ==
  \E r \in RunIds, chunk \in {<<l>> : l \in ToolLines} \cup {<< >>},
     newline \in BOOLEAN : OnData(r, chunk, newline)

NextTool ==
  \/ RunAlone
  \/ ToolLine
  \/ ToolData
  \/ Exit
  \/ Close
  \/ PtyExit

SpecTool == Init /\ [][NextTool]_vars

\* --- SpecQueue: calls of runCliAgent on every backend, with every
\* serialize field and session, whose children end with code 0 or 1
RunName(i) == "run-" \o ToString(i)

\* the caller's fresh runId: the first name no run in flight has
FreshRunNames ==
  LET free == {i \in 1..MaxCalls : RunName(i) \notin RunIdsInFlight}
  IN IF free = {} THEN {} ELSE {RunName(SetMin(free))}

CallRunCliAgent ==
  \E b \in Backends, f \in SerializeFlags, s \in Sessions, n \in FreshRunNames :
    runCliAgent(b, f, s, n)

StartTask == \E k \in DOMAIN CLI_RUN_QUEUE : TaskStart(k)

SettleTask == \E k \in DOMAIN CLI_RUN_QUEUE, c \in {0, 1} : TaskSettle(k, c)

NextQueue ==
  \/ CallRunCliAgent
  \/ StartTask
  \/ SettleTask

InitQueue == Init /\ variant = "pipe"

SpecQueue == InitQueue /\ [][NextQueue]_vars

\* --- SpecBackend: resolveCliBackendConfig and mergeBackendConfig on the
\* provider ids, configured backends and overrides that are enumerated
EmptyObject == [f \in Fields |-> Undefined]

NoFormat == [k \in FormatKinds |-> Undefined]

Overrides ==
  {[EmptyObject EXCEPT !.command = c, !.args = a, !.resumeArgs = r, !.env = e,
                       !.modelAliases = m, !.clearEnv = ce, !.serialize = se,
                       !.streamingFormat = sf] :
     c \in {Undefined, <<"mycli">>, <<" mycli ">>, <<"">>, <<"  ">>},
     a \in {Undefined, <<<<"run">>>>},
     r \in {Undefined, << << >> >>, <<<<"resume", "{sessionId}">>>>,
            <<<<"--resume={sessionId}", "{sessionId}">>>>, <<<<"--continue">>>>},
     e \in {Undefined, <<("HOME" :> "/tmp")>>},
     m \in {Undefined, <<("opus" :> "opus-next" @@ "mini" :> "small")>>},
     ce \in {Undefined, <<<<"ANTHROPIC_API_KEY", "TOKEN", "TOKEN">>>>},
     se \in {Undefined, <<FALSE>>},
     sf \in {Undefined,
             <<[NoFormat EXCEPT !.text = <<("textField" :> "body")>>]>>,
             <<[NoFormat EXCEPT !.toolResult =
                  <<("idField" :> "id" @@ "isErrorField" :> "failed")>>]>>}}

Providers ==
  {"claude-cli", "Claude-CLI", "codex-cli", " codex-cli", "my-cli", "My-CLI", "other"}

\* cfg?.agents?.defaults?.cliBackends ?? {} as Object.entries lists it
ConfiguredBackends ==
  {<< >>}
    \cup {<<<<key, o>>>> : key \in {"claude-cli", "codex-cli", "My-CLI"}, o \in Overrides}
    \cup {<<<<"My-CLI", [EmptyObject EXCEPT !.command = c1]>>,
            <<"my-cli", [EmptyObject EXCEPT !.command = c2]>>>> :
            c1, c2 \in {Undefined, <<"first">>, <<"second">>}}
    \cup {<<<<"my-cli", [EmptyObject EXCEPT !.command = c2]>>,
            <<"My-CLI", [EmptyObject EXCEPT !.command = c1]>>>> :
            c1, c2 \in {Undefined, <<"first">>, <<"second">>}}
    \cup {<<<<k1, [EmptyObject EXCEPT !.command = <<"first">>]>>,
            <<k2, [EmptyObject EXCEPT !.command = <<"second">>]>>>> :
            k1, k2 \in {"claude-cli", "codex-cli", "My-CLI"}}

BuiltIns == {DEFAULT_CLAUDE_BACKEND, DEFAULT_CODEX_BACKEND}

ResolveBackend ==
  /\ backendCall = NoCall
  /\ \E provider \in Providers, configured \in ConfiguredBackends :
       backendCall' = [op |-> "resolve", provider |-> provider,
                       configured |-> configured,
                       resolved |-> resolveCliBackendConfig(provider, configured)]
  /\ UNCHANGED <<ACTIVE_CLI_RUNS, CLI_RUN_WAITERS, runs, waiters, lastCall, settled,
                 released, variant, CLI_RUN_QUEUE, agentCall, lockVars>>

MergeBackend ==
  /\ backendCall = NoCall
  /\ \E base \in BuiltIns, override \in {Undefined} \cup {<<o>> : o \in Overrides} :
       backendCall' = [op |-> "merge", base |-> base, override |-> override,
                       merged |-> mergeBackendConfig(base, override)]
  /\ UNCHANGED <<ACTIVE_CLI_RUNS, CLI_RUN_WAITERS, runs, waiters, lastCall, settled,
                 released, variant, CLI_RUN_QUEUE, agentCall, lockVars>>

NextBackend ==
  \/ ResolveBackend
  \/ MergeBackend

InitBackend == Init /\ variant = "pipe"

SpecBackend == InitBackend /\ [][NextBackend]_vars

\* --- SpecAgent: runCliAgent of cli-runner.ts on the descriptors that
\* resolve for the providers and configured backends below, with and
\* without a prior native session id
ResolvedBackends ==
  {res.config :
     res \in {r \in {resolveCliBackendConfig(p, c) :
                       p \in {"claude-cli", "codex-cli", "My-CLI"},
                       c \in ConfiguredBackends} : ~r.isNull}}

PriorSessionIds == {Undefined, <<"">>, <<"prior-1">>}

ChooseArgs ==
  /\ agentCall = NoCall
  /\ \E backend \in ResolvedBackends, cliSessionId \in PriorSessionIds :
       LET toSend == resolveSessionIdToSend(backend, cliSessionId).sessionId
           useResume == UseResume(backend, cliSessionId, toSend)
       IN agentCall' = [op |-> "args", backend |-> backend,
                        cliSessionId |-> cliSessionId,
                        cliSessionIdToSend |-> toSend,
                        useResume |-> useResume,
                        resolvedArgs |-> ResolvedArgs(backend, useResume, toSend)]
  /\ UNCHANGED <<ACTIVE_CLI_RUNS, CLI_RUN_WAITERS, runs, waiters, lastCall, settled,
                 released, variant, CLI_RUN_QUEUE, backendCall, lockVars>>

ErrorTexts ==
  {"", " 401 unauthorized: invalid api key ", "rate limit exceeded",
   "segmentation fault"}

ExitResults ==
  [code : {0, 1}, aborted : BOOLEAN, stderr : ErrorTexts,
   stdout : {"", "hello ", "quota exceeded"}]

Execute ==
  /\ agentCall = NoCall
  /\ \E streaming \in {Undefined, <<TRUE>>, <<FALSE>>}, result \in ExitResults,
        provider \in {"claude-cli", "my-cli"},
        model \in {Undefined, <<"opus">>, <<"  ">>} :
       agentCall' = [op |-> "execute", streaming |-> streaming, result |-> result,
                     provider |-> provider, model |-> model,
                     outcome |-> ExecutionOutcome(streaming, result, provider, model)]
  /\ UNCHANGED <<ACTIVE_CLI_RUNS, CLI_RUN_WAITERS, runs, waiters, lastCall, settled,
                 released, variant, CLI_RUN_QUEUE, backendCall, lockVars>>

\* the environment variables and values that are enumerated
EnvKeys == {"PATH", "ANTHROPIC_API_KEY", "HOME"}

EnvValues == {"inherited", "added"}

EnvMaps == UNION {[keys -> EnvValues] : keys \in SUBSET EnvKeys}

ClearLists ==
  {Undefined, << << >> >>, <<<<"ANTHROPIC_API_KEY">>>>, <<<<"HOME", "PATH">>>>,
   <<<<"ANTHROPIC_API_KEY", "ANTHROPIC_API_KEY">>>>, <<<<"TOKEN">>>>}

\* delete next[key] for each key of the list, in order
RECURSIVE DeleteKeys(_, _)
DeleteKeys(next, keys) ==
  IF keys = << >>
  THEN next
  ELSE DeleteKeys(MapDelete(next, keys[1]), SubSeq(keys, 2, Len(keys)))

\* mutant: the descriptor's additions are spread after the keys are deleted
ChildEnv_addsAfterClear(processEnv, backend) ==
  SpreadMaps(<<DeleteKeys(processEnv, Coalesce(backend.clearEnv, << << >> >>)[1])>>,
             backend.env)

\* { ...process.env, ...backend.env } without the keys of backend.clearEnv
ChildEnv(processEnv, backend) ==
  LET next == SpreadMaps(<<processEnv>>, backend.env)
  IN DeleteKeys(next, Coalesce(backend.clearEnv, << << >> >>)[1])

BuildEnv ==
  /\ agentCall = NoCall
  /\ \E processEnv \in EnvMaps, env \in {Undefined} \cup {<<m>> : m \in EnvMaps},
        clearEnv \in ClearLists :
       LET backend == [EmptyObject EXCEPT !.command = <<"mycli">>, !.env = env,
                                          !.clearEnv = clearEnv]
       IN agentCall' = [op |-> "env", processEnv |-> processEnv, backend |-> backend,
                        env |-> ChildEnv(processEnv, backend)]
  /\ UNCHANGED <<ACTIVE_CLI_RUNS, CLI_RUN_WAITERS, runs, waiters, lastCall, settled,
                 released, variant, CLI_RUN_QUEUE, backendCall, lockVars>>

\* what becomes of the kill command: it ends (with or without a match), it
\* fails, or it is cut off by its timeout
CleanupOutcomes == {"done", "error", "timeout"}

\* mutant: no catch around the kill command
cleanupCliSessionProcesses_rethrows(outcome) ==
  IF outcome = "done" THEN "resolved" ELSE "rejected"

\* cleanupCliSessionProcesses: the kill command runs inside try / catch, so
\* the promise resolves whatever becomes of the command
cleanupCliSessionProcesses(outcome) == "resolved"

\* cleanupResumeProcesses and cleanupSuspendedCliProcesses of
\* cli-runner/helpers.ts: best-effort, the promise resolves
cleanupResumeProcesses(outcome) == "resolved"

\* runCliAgent of pi-cli-runner/run.ts up to its first await: a request
\* with a prior native session id awaits the cleanup, any other goes
\* straight to the command
PiRunCliAgent ==
  /\ agentCall = NoCall
  /\ \E cliSessionId \in PriorSessionIds :
       LET resume == TruthyString(cliSessionId)
       IN agentCall' = [op |-> "runCli", runner |-> "pi-cli-runner", resume |-> resume,
                        pc |-> IF resume THEN "cleanup" ELSE "exec",
                        trace |-> IF resume THEN <<"pkill">> ELSE << >>]
  /\ UNCHANGED <<ACTIVE_CLI_RUNS, CLI_RUN_WAITERS, runs, waiters, lastCall, settled,
                 released, variant, CLI_RUN_QUEUE, backendCall, lockVars>>

\* runCliAgent of cli-runner.ts after the arguments are chosen: the queued
\* task awaits cleanupSuspendedCliProcesses first
EnterQueuedRun ==
  /\ agentCall.op = "args"
  /\ agentCall' = [op |-> "runCli", runner |-> "cli-runner",
                   resume |-> agentCall.useResume
                                /\ TruthyString(agentCall.cliSessionIdToSend),
                   pc |-> "suspended", trace |-> <<"reap">>]
  /\ UNCHANGED <<ACTIVE_CLI_RUNS, CLI_RUN_WAITERS, runs, waiters, lastCall, settled,
                 released, variant, CLI_RUN_QUEUE, backendCall, lockVars>>

\* if (useResume && cliSessionIdToSend) await cleanupResumeProcesses(...)
SuspendedCleanupSettles ==
  /\ agentCall.op = "runCli"
  /\ agentCall.pc = "suspended"
  /\ agentCall' = [agentCall EXCEPT
                     !.pc = IF agentCall.resume THEN "cleanup" ELSE "exec",
                     !.trace = IF agentCall.resume THEN Append(@, "pkill") ELSE @]
  /\ UNCHANGED <<ACTIVE_CLI_RUNS, CLI_RUN_WAITERS, runs, waiters, lastCall, settled,
                 released, variant, CLI_RUN_QUEUE, backendCall, lockVars>>

\* the awaited cleanup settles
CleanupSettles ==
  /\ agentCall.op = "runCli"
  /\ agentCall.pc = "cleanup"
  /\ \E outcome \in CleanupOutcomes :
       LET promise == IF agentCall.runner = "pi-cli-runner"
                      THEN cleanupCliSessionProcesses(outcome)
                      ELSE cleanupResumeProcesses(outcome)
       IN agentCall' = [agentCall EXCEPT
                          !.pc = IF promise = "resolved" THEN "exec" ELSE "thrown",
                          !.trace = Append(@, outcome)]
  /\ UNCHANGED <<ACTIVE_CLI_RUNS, CLI_RUN_WAITERS, runs, waiters, lastCall, settled,
                 released, variant, CLI_RUN_QUEUE, backendCall, lockVars>>

\* runCommandWithTimeout / runCliWithStreaming: the child is started
StartChild ==
  /\ agentCall.op = "runCli"
  /\ agentCall.pc = "exec"
  /\ agentCall' = [agentCall EXCEPT !.pc = "running", !.trace = Append(@, "spawn")]
  /\ UNCHANGED <<ACTIVE_CLI_RUNS, CLI_RUN_WAITERS, runs, waiters, lastCall, settled,
                 released, variant, CLI_RUN_QUEUE, backendCall, lockVars>>

\* the child ends and runCliAgent returns its result
ChildEnds ==
  /\ agentCall.op = "runCli"
  /\ agentCall.pc = "running"
  /\ \E code \in {"0", "1"} :
       agentCall' = [agentCall EXCEPT !.pc = "returned", !.trace = Append(@, code)]
  /\ UNCHANGED <<ACTIVE_CLI_RUNS, CLI_RUN_WAITERS, runs, waiters, lastCall, settled,
                 released, variant, CLI_RUN_QUEUE, backendCall, lockVars>>

NextAgent ==
  \/ ChooseArgs
  \/ Execute
  \/ BuildEnv
  \/ PiRunCliAgent
  \/ EnterQueuedRun
  \/ SuspendedCleanupSettles
  \/ CleanupSettles
  \/ StartChild
  \/ ChildEnds

InitAgent == Init /\ variant = "pipe"

SpecAgent == InitAgent /\ [][NextAgent]_vars

\* --- SpecExit: one run at a time that reads text, writes to stderr, is
\* aborted or not, fails to spawn or ends with any exit code, and a pty
\* that cannot be loaded or delivers output after its exit
ExitLines ==
  {JsonLine("content_block_delta", "", "", "text_delta", "a"),
   JsonLine("content_block_stop", "", "", "", ""),
   JsonLine("system", "init", "n1", "", ""),
   JsonLine("result", "", "", "object", "R"),
   JsonLine("error", "", "", "", "boom")}

StderrChunks == {"err", " ", " warn: " \o Repeat("e", StderrSummaryMax)}

RunEither ==
  /\ LiveRuns = {}
  /\ \E s \in Sessions, ok \in BOOLEAN : StartRun(s, 0, ok)

PtyLoad ==
  /\ LiveRuns = {}
  /\ \E s \in Sessions : PtyLoadFailure(s)

StderrAny == \E r \in RunIds, chunk \in StderrChunks : StderrData(r, chunk)

ExitLine == \E r \in RunIds, l \in ExitLines : StdoutLine(r, l)

ExitData ==
  \E r \in RunIds, chunk \in {<<l>> : l \in ExitLines} \cup {<< >>},
     newline \in BOOLEAN : OnData(r, chunk, newline)

Late == \E l \in ExitLines : LateData(l)

NextExit ==
  \/ RunEither
  \/ PtyLoad
  \/ Abort
  \/ StderrAny
  \/ ExitLine
  \/ ExitData
  \/ ExitAny
  \/ Close
  \/ SpawnError
  \/ PtyExit
  \/ Late

SpecExit == Init /\ [][NextExit]_vars

\* --- SpecWait: waiters with every timeout argument, on at most
\* MaxConcurrentRuns runs in flight
RunPlain ==
  /\ Cardinality(LiveRuns) < MaxConcurrentRuns
  /\ \E s \in Sessions : StartRun(s, 0, TRUE)

WaitForEndTimed == \E s \in Sessions, t \in WaitTimeouts : waitForCliRunEnd(s, <<t>>)

WaitForEndDefault == \E s \in Sessions : waitForCliRunEnd(s, Omitted)

NextWait ==
  \/ RunPlain
  \/ WaitForEndTimed
  \/ WaitForEndDefault
  \/ WaitTimer
  \/ Exit
  \/ Close
  \/ PtyExit

SpecWait == Init /\ [][NextWait]_vars

\* --- SpecFinal: pipe runs whose spawn may fail, started on any key while
\* earlier runs wait for their close event, with waiters on the keys
RunSpawning == \E s \in Sessions, ok \in BOOLEAN : StartRun(s, 0, ok)

NextFinal ==
  \/ RunSpawning
  \/ WaitForEndDefault
  \/ WaitTimer
  \/ SpawnError
  \/ Exit
  \/ Close

InitFinal == Init /\ variant = "pipe"

SpecFinal == InitFinal /\ [][NextFinal]_vars

\* --- SpecLock: calls of appendMessageToTranscriptAsync on two sessions,
\* with files that can or cannot be written
AppendCall ==
  \E c \in AppendCallIds, s \in Sessions, pathResolved, writable \in BOOLEAN :
    appendMessageToTranscriptAsync(c, s, pathResolved, writable)

AppendResumes == \E c \in AppendCallIds, writable \in BOOLEAN : PendingResolved(c, writable)

AppendReturns == \E c \in AppendCallIds : ReleaseLock(c)

NextLock ==
  \/ AppendCall
  \/ AppendResumes
  \/ AppendReturns

InitLock == Init /\ variant = "pipe"

SpecLock == InitLock /\ [][NextLock]_vars

\* ------------------------------------------------- router (part_002)
\* what the embedded registry says of a session key
NoEmbedded == [active |-> FALSE, streaming |-> FALSE]

EmbeddedStates == {NoEmbedded, [active |-> TRUE, streaming |-> TRUE]}

BoolText(b) == IF b THEN "true" ELSE "false"

\* an operation that the router hands to the embedded registry
\* (pi-embedded-runner): it returns a value and leaves the CLI registry alone
EmbeddedCall(op, sessionId, ret) ==
  /\ lastCall' = [op |-> "embedded." \o op, sid |-> sessionId, ret |-> ret, signals |-> 0]
  /\ settled' = UnusedRun
  /\ released' = {}
  /\ UNCHANGED <<ACTIVE_CLI_RUNS, CLI_RUN_WAITERS, runs, waiters, variant, CLI_RUN_QUEUE, callVars>>

\* the router returns a value itself, without calling a registry
RouterReturns(op, sessionId, ret) ==
  /\ lastCall' = [op |-> op, sid |-> sessionId, ret |-> ret, signals |-> 0]
  /\ settled' = UnusedRun
  /\ released' = {}
  /\ UNCHANGED <<ACTIVE_CLI_RUNS, CLI_RUN_WAITERS, runs, waiters, variant, CLI_RUN_QUEUE, callVars>>

queueEmbeddedPiMessage(sessionId, text, embedded) ==
  IF embedded.active
  THEN EmbeddedCall("queue", sessionId, "true")
  ELSE IF isCliRunActive(sessionId)
       THEN queueCliMessage(sessionId, text)
       ELSE RouterReturns("queue", sessionId, "false")

abortEmbeddedPiRun(sessionId, embedded) ==
  IF embedded.active
  THEN EmbeddedCall("abort", sessionId, "true")
  ELSE IF isCliRunActive(sessionId)
       THEN abortCliRun(sessionId)
       ELSE RouterReturns("abort", sessionId, "false")

isEmbeddedPiRunActive(sessionId, embedded) ==
  embedded.active \/ isCliRunActive(sessionId)

isEmbeddedPiRunStreaming(sessionId, embedded) ==
  IF embedded.active
  THEN embedded.streaming
  ELSE IF isCliRunActive(sessionId)
       THEN isCliRunStreaming(sessionId)
       ELSE FALSE

\* mutant: the router waits with the default timeout
waitForEmbeddedPiRunEnd_dropsTimeout(sessionId, timeoutArg, embedded) ==
  IF embedded.active
  THEN EmbeddedCall("waitForEnd", sessionId, "pending")
  ELSE IF isCliRunActive(sessionId)
       THEN waitForCliRunEnd(sessionId, Omitted)
       ELSE RouterReturns("waitForEnd", sessionId, "true")

waitForEmbeddedPiRunEnd(sessionId, timeoutArg, embedded) ==
  IF embedded.active
  THEN EmbeddedCall("waitForEnd", sessionId, "pending")
  ELSE IF isCliRunActive(sessionId)
       THEN waitForCliRunEnd(sessionId, timeoutArg)
       ELSE RouterReturns("waitForEnd", sessionId, "true")

\* --- SpecRouter: the registry operations called through the router, for
\* keys with and without an embedded run, around runs of the pipe variant
RouterQueue ==
  \E s \in Sessions, e \in EmbeddedStates : queueEmbeddedPiMessage(s, "msg", e)

RouterAbort == \E s \in Sessions, e \in EmbeddedStates : abortEmbeddedPiRun(s, e)

RouterIsActive ==
  \E s \in Sessions, e \in EmbeddedStates :
    RouterReturns("isActive", s, BoolText(isEmbeddedPiRunActive(s, e)))

RouterIsStreaming ==
  \E s \in Sessions, e \in EmbeddedStates :
    RouterReturns("isStreaming", s, BoolText(isEmbeddedPiRunStreaming(s, e)))

RouterWaitTimeouts == {<<250>>}

RouterWait ==
  \E s \in Sessions, t \in RouterWaitTimeouts, e \in EmbeddedStates :
    waitForEmbeddedPiRunEnd(s, t, e)

NextRouter ==
  \/ Run
  \/ Exit
  \/ Close
  \/ RouterQueue
  \/ RouterAbort
  \/ RouterIsActive
  \/ RouterIsStreaming
  \/ RouterWait

InitRouter == Init /\ variant = "pipe"

SpecRouter == InitRouter /\ [][NextRouter]_vars

\* ====================================================== claims C1 .. C10
\* the handle registered for a session, 0 when there is none
Registered(active, sessionId) ==
  IF MapHas(active, sessionId) THEN active[sessionId] ELSE 0

\* this step ran finalize, hence clearActiveCliRun(sessionId, handle)
ClearCalled(sessionId, handle) ==
  /\ settled'.used
  /\ settled'.sessionId = sessionId
  /\ settled'.id = handle

\* C1: clear(sessionId, handle) removes the registration of sessionId exactly
\* when handle is the handle registered for it, and a registration goes away
\* in no other way; a clear that carries a superseded handle leaves the newer
\* registration, the wait-list and every waiter as they were.
C1_ClearByIdentity ==
  [][\A s \in Sessions :
       /\ (MapHas(ACTIVE_CLI_RUNS, s) /\ ~MapHas(ACTIVE_CLI_RUNS', s))
            => ClearCalled(s, ACTIVE_CLI_RUNS[s])
       /\ \A h \in RunIds :
            ClearCalled(s, h) =>
              IF Registered(ACTIVE_CLI_RUNS, s) = h
              THEN ~MapHas(ACTIVE_CLI_RUNS', s)
              ELSE /\ ACTIVE_CLI_RUNS' = ACTIVE_CLI_RUNS
                   /\ CLI_RUN_WAITERS' = CLI_RUN_WAITERS
                   /\ waiters' = waiters
                   /\ released' = {}]_vars

\* run A was finalized while run B holds the registration of A's session and
\* a waiter is pending on it
C1_Witness ==
  /\ settled.used
  /\ MapHas(ACTIVE_CLI_RUNS, settled.sessionId)
  /\ ACTIVE_CLI_RUNS[settled.sessionId] # settled.id
  /\ WaitersOf(settled.sessionId) # {}

\* C2: waitForEnd on a session with no registered run returns true at once
\* and leaves the registry, the wait-list and all waiters (hence all timers)
\* unchanged.
C2_WaitNoRunImmediate ==
  [][(lastCall'.op = "waitForEnd" /\ ~MapHas(ACTIVE_CLI_RUNS, lastCall'.sid))
       => /\ lastCall'.ret = "true"
          /\ released' = {}
          /\ UNCHANGED <<ACTIVE_CLI_RUNS, CLI_RUN_WAITERS, waiters, runs>>]_vars

\* waitForEnd returned true for a session without a run while the other
\* session has a run with a pending waiter
C2_Witness ==
  /\ lastCall.op = "waitForEnd"
  /\ lastCall.sid \in Sessions
  /\ lastCall.ret = "true"
  /\ ~MapHas(ACTIVE_CLI_RUNS, lastCall.sid)
  /\ \E s \in Sessions : MapHas(ACTIVE_CLI_RUNS, s) /\ WaitersOf(s) # {}

\* C3: a clear that carries the registered handle resolves every waiter of
\* the session true in that step, once each, with its timer cancelled, and
\* empties the session's wait-list; waiters of other sessions are untouched,
\* and no waiter that has been resolved stays pending or keeps a timer.
C3_ClearReleasesAll ==
  [][/\ \A s \in Sessions :
          (MapHas(ACTIVE_CLI_RUNS, s) /\ ClearCalled(s, ACTIVE_CLI_RUNS[s])) =>
            /\ ~MapHas(CLI_RUN_WAITERS', s)
            /\ released' = {[waiters[w] EXCEPT !.timer = "cleared", !.resolves = 1,
                                                !.value = "true"] : w \in WaitersOf(s)}
            /\ \A w \in WaiterIds :
                 waiters'[w] = IF w \in WaitersOf(s) THEN UnusedWaiter ELSE waiters[w]
     /\ \A w \in WaiterIds :
          waiters'[w].used => waiters'[w].resolves = 0 /\ waiters'[w].timer = "armed"
     /\ \A x \in released' : x.resolves = 1 /\ x.timer # "armed"]_vars

\* a clear released two waiters at once
C3_Witness ==
  /\ settled.used
  /\ Cardinality(released) >= 2
  /\ \A x \in released : x.value = "true" /\ x.sessionId = settled.sessionId

\* the delay handed to setTimeout for a waiter: 15000 when the argument is
\* left out, else the argument raised to 100
DelayAsClaimed(x) ==
  IF x.timeoutArg = Omitted
  THEN x.delay = DefaultWaitTimeoutMs
  ELSE IF x.timeoutArg[1] < MinWaitTimeoutMs
       THEN x.delay = MinWaitTimeoutMs
       ELSE x.delay = x.timeoutArg[1]

\* C4: a waiter whose timer fires is resolved false once, is no longer in
\* the wait-list nor pending, and the run of its session is still
\* registered; every waiter's timer delay is max(100, timeoutMs) with
\* timeoutMs 15000 when left out.
C4_WaitTimeout ==
  /\ \A x \in released :
       x.value = "false" =>
         /\ x.resolves = 1
         /\ x.timer = "fired"
         /\ x.id \notin WaitersOf(x.sessionId)
         /\ ~waiters[x.id].used
         /\ MapHas(ACTIVE_CLI_RUNS, x.sessionId)
         /\ DelayAsClaimed(x)
  /\ \A w \in WaiterIds : waiters[w].used => DelayAsClaimed(waiters[w])

\* a waiter that asked for at most 0 ms timed out on a 100 ms timer while
\* its run is registered
C4_Witness ==
  \E x \in released :
    /\ x.value = "false"
    /\ x.timeoutArg # Omitted
    /\ x.timeoutArg[1] <= 0
    /\ x.delay = MinWaitTimeoutMs
    /\ MapHas(ACTIVE_CLI_RUNS, x.sessionId)

\* C5: abort(sessionId) returns false and changes nothing when sessionId has
\* no run; else it returns true, the registered handle (and no other run) is
\* aborted, and the registration, the wait-list and the waiters stay.
C5_AbortRegisteredOnly ==
  [][lastCall'.op = "abort" =>
       LET h == Registered(ACTIVE_CLI_RUNS, lastCall'.sid) IN
         /\ UNCHANGED <<ACTIVE_CLI_RUNS, CLI_RUN_WAITERS, waiters>>
         /\ released' = {}
         /\ settled' = UnusedRun
         /\ IF h = 0
            THEN lastCall'.ret = "false" /\ lastCall'.signals = 0 /\ runs' = runs
            ELSE /\ lastCall'.ret = "true"
                 /\ runs'[h].aborted
                 /\ ~runs'[h].isStreaming
                 /\ runs'[h].kills = 1
                 /\ \A r \in RunIds \ {h} : runs'[r] = runs[r]]_vars

\* abort returned true for a session with a pending waiter, while another
\* run is in flight and not aborted
C5_Witness ==
  /\ lastCall.op = "abort"
  /\ lastCall.ret = "true"
  /\ MapHas(ACTIVE_CLI_RUNS, lastCall.sid)
  /\ runs[ACTIVE_CLI_RUNS[lastCall.sid]].aborted
  /\ WaitersOf(lastCall.sid) # {}
  /\ \E r \in RunIds : r # ACTIVE_CLI_RUNS[lastCall.sid] /\ runs[r].used
                       /\ ~runs[r].aborted

AbortInvoked(rr) == rr.abortRequested \/ rr.timerAborts > 0

KilledOnce(rr) ==
  /\ rr.kills <= 1
  /\ AbortInvoked(rr) => (rr.kills = 1 /\ rr.aborted)
  /\ (AbortInvoked(rr) /\ rr.resolved) => rr.result.aborted

\* C6: once abort has been invoked on a run, by abort calls or by the
\* timeout timer, however often, the child has been signalled exactly once
\* and the result of the run reports aborted.
C6_AbortIdempotent ==
  /\ \A r \in RunIds : runs[r].used => KilledOnce(runs[r])
  /\ settled.used => KilledOnce(settled)
  /\ lastCall.op = "abort" => lastCall.signals <= 1

\* a run was aborted by its timer and then again through the registry, and
\* has delivered its result
C6_Witness ==
  /\ settled.used
  /\ settled.abortRequested
  /\ settled.timerAborts = 1
  /\ settled.kills = 1
  /\ settled.result.aborted

\* C7: queueMessage returns false whatever the registry holds and changes
\* neither registry, wait-list, waiters nor any run; the handle's own
\* queueMessage changes nothing either.
C7_QueueMessageNoOp ==
  [][/\ lastCall'.op = "queue" =>
          /\ lastCall'.ret = "false"
          /\ released' = {}
          /\ UNCHANGED <<ACTIVE_CLI_RUNS, CLI_RUN_WAITERS, runs, waiters>>
     /\ lastCall'.op = "handle.queueMessage" =>
          /\ released' = {}
          /\ UNCHANGED <<ACTIVE_CLI_RUNS, CLI_RUN_WAITERS, runs, waiters>>]_vars

\* queueMessage was called for a session whose registered run is aborted
C7_Witness ==
  /\ lastCall.op = "queue"
  /\ lastCall.ret = "false"
  /\ MapHas(ACTIVE_CLI_RUNS, lastCall.sid)
  /\ runs[ACTIVE_CLI_RUNS[lastCall.sid]].aborted

\* C8: register makes the new handle the registered one of its session,
\* absent or active before; no other run changes (the replaced one is neither
\* aborted nor signalled), no other session's registration changes and no
\* waiter is released.
C8_RegisterReplaces ==
  [][lastCall'.op = "run" =>
       \E r \in RunIds :
         /\ ~runs[r].used
         /\ runs'[r].used
         /\ ACTIVE_CLI_RUNS' = MapSet(ACTIVE_CLI_RUNS, lastCall'.sid, r)
         /\ \A h \in RunIds \ {r} : runs'[h] = runs[h]
         /\ released' = {}
         /\ UNCHANGED <<CLI_RUN_WAITERS, waiters>>]_vars

\* a run was registered over a live, un-aborted run of the same session
\* that has a pending waiter
C8_Witness ==
  /\ lastCall.op = "run"
  /\ WaitersOf(lastCall.sid) # {}
  /\ \E h \in RunIds :
       /\ h # ACTIVE_CLI_RUNS[lastCall.sid]
       /\ runs[h].used
       /\ runs[h].sessionId = lastCall.sid
       /\ runs[h].child = "alive"
       /\ ~runs[h].aborted
       /\ runs[h].kills = 0

NoErrorPayload(result) ==
  \A i \in DOMAIN result.payloads : ~result.payloads[i].isError

\* C9: a run whose timer fired while it was streaming has been aborted as by
\* handle.abort (aborted, not streaming, child signalled once), and its
\* result reports aborted and carries no error payload.
C9_TimeoutIsAbort ==
  /\ \A r \in RunIds :
       (runs[r].used /\ runs[r].timerAborts > 0) =>
         /\ runs[r].timeoutMs > 0
         /\ runs[r].aborted
         /\ ~runs[r].isStreaming
         /\ runs[r].kills = 1
  /\ (settled.used /\ settled.timerAborts > 0) =>
       /\ settled.kills = 1
       /\ settled.result.aborted
       /\ NoErrorPayload(settled.result)

\* a run aborted by its timer alone ended with a non-zero exit code and
\* stderr output
C9_Witness ==
  /\ settled.used
  /\ settled.timerAborts = 1
  /\ ~settled.abortRequested
  /\ settled.exitCode # 0
  /\ settled.stderrBuffer # ""
  /\ settled.result.aborted

NoTimerWhenNonPositive(rr) ==
  /\ rr.timeoutMs <= 0 =>
       /\ rr.timeoutId = "undefined"
       /\ rr.timerAborts = 0
       /\ rr.aborted => rr.abortRequested
  /\ rr.timeoutMs > 0 => rr.timeoutId # "undefined"
  /\ rr.resolved => rr.timeoutId # "armed"

\* C10: a run with timeoutMs <= 0 has no timer, is never aborted by one and
\* is aborted only by an abort call; a run that has produced its result has
\* no armed timer left.
C10_TimerArmedAndCancelled ==
  /\ \A r \in RunIds : runs[r].used => NoTimerWhenNonPositive(runs[r])
  /\ settled.used =>
       /\ settled.resolved
       /\ NoTimerWhenNonPositive(settled)
       /\ (settled.timeoutMs <= 0 /\ settled.result.aborted) => settled.abortRequested

\* a run with a positive timeout finished, un-aborted, with its timer
\* cancelled by finalize
C10_Witness ==
  /\ settled.used
  /\ settled.timeoutMs > 0
  /\ settled.timeoutId = "cleared"
  /\ ~settled.result.aborted

\* ===================================================== claims C11 .. C20
\* C11: a run's handle is registered when the run starts; a run whose result
\* has been delivered is not the registered handle of any session; when the
\* session of a delivered run has no registration left no waiter of it is
\* pending, and a registration that is left belongs to another run.
C11_RegisterThenClear ==
  /\ \A s \in DOMAIN ACTIVE_CLI_RUNS :
       /\ runs[ACTIVE_CLI_RUNS[s]].used
       /\ runs[ACTIVE_CLI_RUNS[s]].sessionId = s
       /\ ~runs[ACTIVE_CLI_RUNS[s]].resolved
  /\ lastCall.op = "run" =>
       /\ isCliRunActive(lastCall.sid)
       /\ runs[ACTIVE_CLI_RUNS[lastCall.sid]].isStreaming
  /\ settled.used =>
       /\ settled.resolved
       /\ \A s \in DOMAIN ACTIVE_CLI_RUNS : ACTIVE_CLI_RUNS[s] # settled.id
       /\ ~isCliRunActive(settled.sessionId) => WaitersOf(settled.sessionId) = {}
  /\ \A x \in released :
       x.value = "true" => (settled.used /\ settled.sessionId = x.sessionId)

\* the registered run of a session ended: its waiter was notified and the
\* session is no longer active
C11_Witness ==
  /\ settled.used
  /\ ~isCliRunActive(settled.sessionId)
  /\ \E x \in released : x.sessionId = settled.sessionId /\ x.value = "true"

\* a run on which abort has been invoked and whose child is alive
AbortedAlive(r) ==
  runs[r].used /\ runs[r].kills > 0 /\ runs[r].child = "alive"

\* the run of slot r has delivered its result (its slot is free again once
\* nothing refers to the run)
Settled(r) == ~runs[r].used \/ runs[r].resolved

\* C12: once abort has been invoked on a run whose child is alive, the child
\* ends and the run settles, also when the child does not end on the first
\* termination signal.
C12_AbortSettles ==
  \A r \in RunIds : AbortedAlive(r) ~> Settled(r)

\* the run of slot r after a step: the slot's record, or the record handed
\* over by finalize in this step
After(r) == IF settled'.used /\ settled'.id = r THEN settled' ELSE runs'[r]

\* the step ran the line handler of the run of slot r
LineHandled(r) ==
  /\ runs[r].used
  /\ After(r).used
  /\ Len(After(r).lineLog) = Len(runs[r].lineLog) + 1

\* the line the handler was run on in this step
HandledLine(r) == After(r).lineLog[Len(After(r).lineLog)]

IsTextDelta(line) ==
  /\ line.kind = "json"
  /\ line.type = "content_block_delta"
  /\ line.shape = "text_delta"
  /\ line.text # ""

IsBlockStop(line) == line.kind = "json" /\ line.type = "content_block_stop"

\* the partial-reply texts among log[1..n] that follow the last block reply,
\* concatenated in order
RECURSIVE PartialsSinceBlock(_, _)
PartialsSinceBlock(log, n) ==
  IF n = 0 \/ log[n].cb = "onBlockReply"
  THEN ""
  ELSE PartialsSinceBlock(log, n - 1)
         \o (IF log[n].cb = "onPartialReply" THEN log[n].text ELSE "")

BlocksAreConcatenations(rr) ==
  \A i \in DOMAIN rr.callbacks :
    rr.callbacks[i].cb = "onBlockReply" =>
      /\ rr.callbacks[i].text # ""
      /\ rr.callbacks[i].text = PartialsSinceBlock(rr.callbacks, i - 1)

\* C13: a text delta is handed to the partial-reply callback in the step
\* that reads it; a block stop with a non-empty buffer fires exactly one
\* block-reply callback and leaves the buffer empty; every block reply's
\* text is the concatenation of the partial replies since the block reply
\* before it.
C13_BlockIsConcatenation ==
  [][\A r \in RunIds :
       LineHandled(r) =>
         /\ IsTextDelta(HandledLine(r)) =>
              After(r).callbacks =
                Append(runs[r].callbacks, Callback("onPartialReply", HandledLine(r).text))
         /\ (IsBlockStop(HandledLine(r)) /\ runs[r].currentTextBuffer # "") =>
              /\ After(r).callbacks =
                   Append(runs[r].callbacks,
                          Callback("onBlockReply", runs[r].currentTextBuffer))
              /\ After(r).currentTextBuffer = ""
         /\ (IsBlockStop(HandledLine(r)) /\ runs[r].currentTextBuffer = "") =>
              After(r).callbacks = runs[r].callbacks
         /\ BlocksAreConcatenations(After(r))]_vars

\* two deltas and a block stop were read: partial "a", partial "b", block "ab"
C13_Witness ==
  \E r \in RunIds :
    /\ runs[r].used
    /\ runs[r].callbacks = <<Callback("onPartialReply", "a"),
                             Callback("onPartialReply", "b"),
                             Callback("onBlockReply", "ab")>>
    /\ runs[r].currentTextBuffer = ""

IsToolResult(line) ==
  line.kind = "json" /\ line.type = "tool_result" /\ line.text # ""

\* the text claimed for a tool-result callback of this content
SummaryAsClaimed(content, delivered) ==
  IF Len(content) > 200
  THEN /\ Len(delivered) = 203
       /\ SubSeq(delivered, 1, 200) = SubSeq(content, 1, 200)
       /\ SubSeq(delivered, 201, 203) = "..."
  ELSE delivered = content

\* C14: reading a tool-result event with non-empty content fires exactly one
\* tool-result callback (and no other); its text is the content when that
\* has at most 200 characters, else the content's first 200 characters
\* followed by "...".
C14_ToolResultSummary ==
  [][\A r \in RunIds :
       (LineHandled(r) /\ IsToolResult(HandledLine(r))) =>
         /\ Len(After(r).callbacks) = Len(runs[r].callbacks) + 1
         /\ SubSeq(After(r).callbacks, 1, Len(runs[r].callbacks)) = runs[r].callbacks
         /\ LET fired == After(r).callbacks[Len(After(r).callbacks)] IN
              /\ fired.cb = "onToolResult"
              /\ SummaryAsClaimed(HandledLine(r).text, fired.text)]_vars

\* a tool result of 300 characters was delivered as 203 and one of exactly
\* 200 characters as it is
C14_Witness ==
  \E r \in RunIds :
    /\ runs[r].used
    /\ Len(runs[r].callbacks) = 2
    /\ Len(runs[r].lineLog) = 2
    /\ Len(runs[r].lineLog[1].text) = 300
    /\ Len(runs[r].callbacks[1].text) = 203
    /\ Len(runs[r].lineLog[2].text) = 200
    /\ runs[r].callbacks[2] = Callback("onToolResult", runs[r].lineLog[2].text)

\* the session_id of the last event among log[1..n] that carries one, and
\* the given id when none does
RECURSIVE LastSessionId(_, _, _)
LastSessionId(log, n, requested) ==
  IF n = 0 THEN requested
  ELSE IF log[n].kind = "json" /\ log[n].session_id # ""
       THEN log[n].session_id
       ELSE LastSessionId(log, n - 1, requested)

\* C15: the resolved session id of a run is the session_id of the last event
\* read that carries one, whatever its type, and the request's session id
\* when no event carried one; the result reports that id.
C15_SessionIdLastWins ==
  /\ \A r \in RunIds :
       runs[r].used =>
         runs[r].resolvedSessionId =
           LastSessionId(runs[r].lineLog, Len(runs[r].lineLog), runs[r].sessionId)
  /\ settled.used =>
       settled.result.sessionId =
         LastSessionId(settled.lineLog, Len(settled.lineLog), settled.sessionId)

IsErrorEvent(line) == line.kind = "json" /\ line.type = "error"

\* every error event the run has read was handed to an error callback
ErrorsCalledBack(rr) ==
  \A i \in DOMAIN rr.lineLog :
    IsErrorEvent(rr.lineLog[i]) =>
      \E j \in DOMAIN rr.callbacks :
        /\ rr.callbacks[j].cb = "onError"
        /\ Contains(rr.callbacks[j].text, rr.lineLog[i].text)

\* every error event the run has read shows in the payloads of its result
ErrorsInPayloads(rr) ==
  \A i \in DOMAIN rr.lineLog :
    IsErrorEvent(rr.lineLog[i]) =>
      \E j \in DOMAIN rr.result.payloads :
        Contains(rr.result.payloads[j].text, rr.lineLog[i].text)

\* C16: every error event read by a run is handed to an error callback, and
\* the result of the run has, for each, a payload whose text contains the
\* error message (so its payload list is not empty).
C16_ErrorSurfaced ==
  /\ \A r \in RunIds : runs[r].used => ErrorsCalledBack(runs[r])
  /\ settled.used => (ErrorsCalledBack(settled) /\ ErrorsInPayloads(settled))

IsResultEvent(line) == line.kind = "json" /\ line.type = "result"

\* the texts of the payloads that are not error payloads, in order
RECURSIVE PayloadTexts(_, _)
PayloadTexts(payloads, n) ==
  IF n = 0 THEN << >>
  ELSE IF payloads[n].isError
       THEN PayloadTexts(payloads, n - 1)
       ELSE Append(PayloadTexts(payloads, n - 1), payloads[n].text)

\* C17: the text payloads of a result are the collected texts in order, and
\* a result event read while the child's output is being streamed adds its
\* text to the collected texts only when nothing was collected and no delta
\* is buffered at that point.
C17_ResultTextIsFallback ==
  [][/\ settled'.used =>
          PayloadTexts(settled'.result.payloads, Len(settled'.result.payloads))
            = settled'.collectedTexts
     /\ \A r \in RunIds :
          (LineHandled(r) /\ ~settled'.used /\ IsResultEvent(HandledLine(r))) =>
            \/ After(r).collectedTexts = runs[r].collectedTexts
            \/ /\ runs[r].collectedTexts = << >>
               /\ runs[r].currentTextBuffer = ""
               /\ After(r).collectedTexts = <<HandledLine(r).text>>]_vars

\* the event types the handler has a case for
HandledTypes ==
  {"system", "assistant", "content_block_delta", "content_block_stop",
   "tool_result", "result", "error"}

\* a line that is blank, is not JSON, or parses to something that is no
\* event of a handled type
IsDroppedLine(line) ==
  \/ line.kind \in {"blank", "garbage", "null"}
  \/ line.kind = "json" /\ line.type \notin HandledTypes

\* C18: a line that is blank, does not parse, or parses to no event of a
\* recognised type fires no callback, leaves the text buffer, the collected
\* texts and the resolved session id as they are, and does not end or fail
\* the run: the handler returns normally and the run goes on.
C18_DroppedLineIsHarmless ==
  [][\A r \in RunIds :
       (LineHandled(r) /\ IsDroppedLine(HandledLine(r))) =>
         /\ After(r).callbacks = runs[r].callbacks
         /\ After(r).currentTextBuffer = runs[r].currentTextBuffer
         /\ After(r).resolvedSessionId = runs[r].resolvedSessionId
         /\ After(r).threw = runs[r].threw
         /\ ~settled'.used =>
              /\ After(r).collectedTexts = runs[r].collectedTexts
              /\ After(r).child = runs[r].child
              /\ After(r).closePending = runs[r].closePending
              /\ After(r).isStreaming = runs[r].isStreaming
              /\ ~After(r).resolved]_vars

\* the runs in flight of one backend that the queue key serializes: two
\* different runs whose descriptors both require serialization
Executing(q) == q.run.phase = "executing"

SerializedPair(p, q) ==
  /\ p # q
  /\ p.run.backend = q.run.backend
  /\ Serialize(p.run.flag)
  /\ Serialize(q.run.flag)

\* C19: two runs of one backend whose descriptor requires serialization
\* never execute at the same time, whatever their sessions: they wait on
\* the same key, and the run that was called later has not started to
\* execute as long as the earlier one has not returned or thrown
C19_SerializedRunsDoNotOverlap ==
  \A p, q \in InFlight :
    SerializedPair(p, q) =>
      /\ p.key = q.key
      /\ ~(Executing(p) /\ Executing(q))
      /\ p.pos < q.pos => q.run.phase = "queued"

C19_Witness ==
  \E p, q \in InFlight :
    /\ SerializedPair(p, q)
    /\ p.run.sessionId # q.run.sessionId
    /\ p.pos < q.pos
    /\ Executing(p)
    /\ q.run.phase = "queued"

Resolving == backendCall.op = "resolve"

\* the configured entry the provider id selects, if any, and the built-in
\* descriptor of the id, if any
OverrideOf(call) ==
  LET id == normalizeProviderId(call.provider)
      hits == {i \in 1..Len(call.configured) :
                 normalizeProviderId(call.configured[i][1]) = id}
  IN IF hits = {} THEN Undefined ELSE <<call.configured[SetMin(hits)][2]>>

BuiltInOf(call) ==
  LET id == normalizeProviderId(call.provider)
  IN CASE id = "claude-cli" -> <<DEFAULT_CLAUDE_BACKEND>>
       [] id = "codex-cli" -> <<DEFAULT_CODEX_BACKEND>>
       [] OTHER -> Undefined

\* the command the resolution rests on: the override's when it gives one,
\* else the built-in's
CommandOf(call) ==
  LET o == OverrideOf(call)
      b == BuiltInOf(call)
  IN IF o # Undefined /\ o[1].command # Undefined
     THEN o[1].command
     ELSE IF b # Undefined THEN b[1].command ELSE Undefined

IsBlank(command) ==
  \/ command = Undefined
  \/ \A i \in 1..Len(command[1]) : SubSeq(command[1], i, i) = " "

NonEmptyTrimmed(command) ==
  /\ command # Undefined
  /\ Len(command[1]) > 0
  /\ SubSeq(command[1], 1, 1) # " "
  /\ SubSeq(command[1], Len(command[1]), Len(command[1])) # " "

\* C21: resolveCliBackendConfig gives a descriptor with a non-empty trimmed
\* command for a built-in id without override, null for an id with neither
\* built-in nor override, null whenever the merged or overriding command is
\* empty or blank, and so never a descriptor whose command is empty.
C21_ResolvedCommandNonEmpty ==
  Resolving =>
    LET call == backendCall
        res == call.resolved
    IN /\ (BuiltInOf(call) # Undefined /\ OverrideOf(call) = Undefined) =>
            ~res.isNull /\ NonEmptyTrimmed(res.config.command)
       /\ (BuiltInOf(call) = Undefined /\ OverrideOf(call) = Undefined) => res.isNull
       /\ IsBlank(CommandOf(call)) => res.isNull
       /\ ~res.isNull =>
            /\ NonEmptyTrimmed(res.config.command)
            /\ res.id = normalizeProviderId(call.provider)

C21_Witness ==
  /\ Resolving
  /\ backendCall.provider = "claude-cli"
  /\ OverrideOf(backendCall) # Undefined
  /\ OverrideOf(backendCall)[1].command = <<"  ">>
  /\ backendCall.resolved.isNull

Merging == backendCall.op = "merge" /\ backendCall.override # Undefined

ScalarFields ==
  {"command", "output", "resumeOutput", "input", "modelArg", "sessionArg",
   "sessionMode", "systemPromptArg", "systemPromptMode", "systemPromptWhen",
   "imageArg", "imageMode", "serialize", "streaming"}

ListFields == {"args", "resumeArgs", "sessionArgs"}

MapFields == {"env", "modelAliases"}

\* the keys and values of a map that may be undefined
KeysOf(map) == IF map = Undefined THEN {} ELSE DOMAIN map[1]

\* merged holds every key of either map, with the override's value on the
\* keys the override has
MergedPerKey(merged, base, override) ==
  /\ merged # Undefined
  /\ KeysOf(merged) = KeysOf(base) \cup KeysOf(override)
  /\ \A k \in KeysOf(merged) :
       merged[1][k] = IF k \in KeysOf(override) THEN override[1][k] ELSE base[1][k]

ElementsOf(list) == IF list = Undefined THEN {} ELSE {list[1][i] : i \in 1..Len(list[1])}

DuplicateFree(list) ==
  \A i, j \in 1..Len(list) : list[i] = list[j] => i = j

KindOf(format, kind) == IF format = Undefined THEN Undefined ELSE format[1][kind]

\* C30: the merge of a built-in descriptor with an override takes a scalar
\* from the override when it gives one; takes args, resumeArgs and
\* sessionArgs whole from the override when it gives them and from the
\* built-in otherwise; gives env and modelAliases every key of both with
\* the override's value on common keys; gives clearEnv each element of both
\* lists once; and merges each streaming-format kind per sub-key with the
\* override's value on common sub-keys.
C30_MergeFieldByField ==
  Merging =>
    LET base == backendCall.base
        o == backendCall.override[1]
        merged == backendCall.merged
    IN /\ \A f \in ScalarFields \cup ListFields :
            merged[f] = IF o[f] # Undefined THEN o[f] ELSE base[f]
       /\ \A f \in MapFields : MergedPerKey(merged[f], base[f], o[f])
       /\ merged.clearEnv # Undefined
       /\ DuplicateFree(merged.clearEnv[1])
       /\ ElementsOf(merged.clearEnv) = ElementsOf(base.clearEnv) \cup ElementsOf(o.clearEnv)
       /\ \A k \in FormatKinds :
            MergedPerKey(KindOf(merged.streamingFormat, k),
                         KindOf(base.streamingFormat, k),
                         KindOf(o.streamingFormat, k))

C30_Witness ==
  /\ Merging
  /\ backendCall.base = DEFAULT_CLAUDE_BACKEND
  /\ backendCall.override[1].modelAliases # Undefined
  /\ backendCall.override[1].clearEnv # Undefined
  /\ backendCall.override[1].args # Undefined
  /\ backendCall.override[1].resumeArgs = Undefined
  /\ KindOf(backendCall.override[1].streamingFormat, "text") # Undefined
  /\ backendCall.merged.modelAliases[1]["opus"] = "opus-next"
  /\ backendCall.merged.modelAliases[1]["sonnet"] = "sonnet"
  /\ backendCall.merged.clearEnv[1] = <<"ANTHROPIC_API_KEY", "ANTHROPIC_API_KEY_OLD", "TOKEN">>
  /\ backendCall.merged.streamingFormat[1]["text"][1]["textField"] = "body"
  /\ backendCall.merged.streamingFormat[1]["text"][1]["matchType"] = "text"

ChoosingArgs == agentCall.op = "args"

\* the request carries a prior native session id
HasPriorId(call) == call.cliSessionId # Undefined /\ call.cliSessionId[1] # ""

\* the descriptor defines a non-empty list of resume arguments
HasResumeArgs(call) ==
  call.backend.resumeArgs # Undefined /\ call.backend.resumeArgs[1] # << >>

\* each argument is its template with the prior id in the place of every
\* placeholder: a template without placeholder is passed as it is
CarriesPriorId(args, templates, priorId) ==
  /\ Len(args) = Len(templates)
  /\ \A i \in 1..Len(templates) :
       /\ ~Contains(args[i], SessionIdPlaceholder)
       /\ templates[i] = SessionIdPlaceholder => args[i] = priorId
       /\ Contains(templates[i], SessionIdPlaceholder) => Contains(args[i], priorId)
       /\ ~Contains(templates[i], SessionIdPlaceholder) => args[i] = templates[i]

\* C22: runCliAgent resumes if and only if the request has a prior native
\* session id and the resolved descriptor has a non-empty list of resume
\* arguments; when it resumes it passes the resume arguments with the prior
\* id substituted for the placeholder, and otherwise the fresh-session
\* arguments as they are.
C22_ResumeIffPriorIdAndResumeArgs ==
  ChoosingArgs =>
    LET call == agentCall
    IN /\ call.useResume <=> (HasPriorId(call) /\ HasResumeArgs(call))
       /\ call.useResume =>
            CarriesPriorId(call.resolvedArgs, call.backend.resumeArgs[1],
                           call.cliSessionId[1])
       /\ ~call.useResume =>
            call.resolvedArgs =
              IF call.backend.args = Undefined THEN << >> ELSE call.backend.args[1]

C22_Witness ==
  /\ ChoosingArgs
  /\ agentCall.useResume
  /\ agentCall.cliSessionId = <<"prior-1">>
  /\ agentCall.backend.resumeArgs = <<<<"--resume={sessionId}", "{sessionId}">>>>
  /\ agentCall.resolvedArgs = <<"--resume=prior-1", "prior-1">>

Executed == agentCall.op = "execute"

\* C23: a child that ends with a non-zero code in a run that was not
\* aborted makes runCliAgent throw a FailoverError that carries the
\* provider, the model, the reason the classifier gives the error text
\* (unknown when it gives none) and the status of that reason: such an exit
\* is never returned as a result.
C23_NonZeroExitRaisesFailover ==
  (Executed /\ agentCall.result.code # 0 /\ ~agentCall.result.aborted) =>
    LET error == agentCall.outcome
        classified == classifyFailoverReason(error.message)
    IN /\ error.kind = "thrown"
       /\ error.type = "FailoverError"
       /\ error.provider = agentCall.provider
       /\ error.model = ModelId(agentCall.model)
       /\ error.reason = IF classified = Undefined THEN "unknown" ELSE classified[1]
       /\ error.status = resolveFailoverStatus(error.reason)

C23_Witness ==
  /\ Executed
  /\ agentCall.result.code = 1
  /\ ~agentCall.result.aborted
  /\ agentCall.streaming = <<FALSE>>
  /\ agentCall.result.stderr = "segmentation fault"
  /\ agentCall.outcome.kind = "thrown"
  /\ agentCall.outcome.reason = "unknown"

\* the payloads hold an error payload whose text starts with the prefix
HasErrorPayload(result, prefix) ==
  \E i \in DOMAIN result.payloads :
    /\ result.payloads[i].isError
    /\ Len(result.payloads[i].text) >= Len(prefix)
    /\ SubSeq(result.payloads[i].text, 1, Len(prefix)) = prefix

\* the run whose spawn failed has had its error event handled
SpawnFailureHandled(rr) == rr.used /\ rr.child = "failed" /\ ~rr.errorPending

HandleRegistered(id) == \E k \in DOMAIN ACTIVE_CLI_RUNS : ACTIVE_CLI_RUNS[k] = id

IsTextLine(line) ==
  /\ line.kind = "json"
  /\ line.text # ""
  /\ \/ line.type = "content_block_delta" /\ line.shape = "text_delta"
     \/ /\ line.type = "assistant"
        /\ line.shape = (IF variant = "pipe" THEN "text" ELSE "content")

IsStopLine(line) == line.kind = "json" /\ line.type = "content_block_stop"

IsToolLine(line) ==
  line.kind = "json" /\ line.type = "tool_result" /\ line.text # ""

CallbacksOfLine(line, open) ==
  IF IsTextLine(line) THEN <<Callback("onPartialReply", line.text)>>
  ELSE IF IsToolLine(line) THEN <<Callback("onToolResult", ToolSummary(line.text))>>
  ELSE IF IsStopLine(line) /\ open # "" THEN <<Callback("onBlockReply", open)>>
  ELSE << >>

OpenAfter(line, open) ==
  IF IsTextLine(line) THEN open \o line.text
  ELSE IF IsStopLine(line) THEN ""
  ELSE open

\* the callbacks of the lines from position i on, taken line by line
RECURSIVE CallbacksFrom(_, _, _)
CallbacksFrom(lines, i, open) ==
  IF i > Len(lines) THEN << >>
  ELSE CallbacksOfLine(lines[i], open)
         \o CallbacksFrom(lines, i + 1, OpenAfter(lines[i], open))

CallbacksInLineOrder(rr) == rr.callbacks = CallbacksFrom(rr.lineLog, 1, "")

\* C25: within one run the partial-reply, block-reply and tool-result
\* callbacks that have fired are exactly the callbacks of the raw lines
\* read so far, one line after the other in the order the child produced
\* them: none is reordered, duplicated or skipped relative to its line
C25_CallbacksFollowLineOrder ==
  /\ \A r \in RunIds : runs[r].used => CallbacksInLineOrder(runs[r])
  /\ settled.used => CallbacksInLineOrder(settled)

\* a run that read a delta, a tool result and a block stop, in this order,
\* and fired the three kinds of callback in the same order
C25_Witness ==
  \E r \in RunIds :
    /\ runs[r].used
    /\ Len(runs[r].lineLog) = 3
    /\ IsTextLine(runs[r].lineLog[1])
    /\ IsToolLine(runs[r].lineLog[2])
    /\ IsStopLine(runs[r].lineLog[3])
    /\ [i \in 1..3 |-> runs[r].callbacks[i].cb]
         = <<"onPartialReply", "onToolResult", "onBlockReply">>

\* ---- C26
\* the run in slot r is, before and after the step, the same run with its
\* promise resolved
StaysResolved(r) == runs[r].resolved /\ runs'[r].resolved

\* the run that settled last is still the one looked at after the step
SameSettledRun ==
  /\ settled.used /\ settled.resolved
  /\ settled'.used /\ settled'.id = settled.id

PtyExitHandled(r) ==
  /\ variant = "pty"
  /\ runs[r].used /\ runs[r].closePending /\ ~runs[r].disposed
  /\ ~runs'[r].used \/ ~runs'[r].closePending

\* the run holds output that no newline has ended, white space apart
HasUnterminatedData(rr) ==
  rr.dataBuffer # << >> /\ rr.dataBuffer[1].kind # "blank"

CarriesSessionId(line) ==
  /\ line.kind = "json"
  /\ line.session_id # ""
  /\ line.type = "result" \/ (line.type = "system" /\ line.subtype = "init")

IsErrorLine(line) == line.kind = "json" /\ line.type = "error"

LastText(result) == result.payloads[Len(result.payloads)].text

\* what the final line line adds to the run rr that the result fin shows
FinalLineContributes(rr, line, fin) ==
  /\ fin.used /\ fin.id = rr.id /\ fin.resolved
  /\ fin.lineLog = Append(rr.lineLog, line)
  /\ fin.callbacks = rr.callbacks \o CallbacksOfLine(line, rr.currentTextBuffer)
  /\ fin.result.sessionId =
       (IF CarriesSessionId(line) THEN line.session_id ELSE rr.resolvedSessionId)
  /\ IsTextLine(line) => LastText(fin.result) = rr.currentTextBuffer \o line.text
  /\ (IsStopLine(line) /\ rr.currentTextBuffer # "") =>
       LastText(fin.result) = rr.currentTextBuffer
  /\ IsErrorLine(line) =>
       \E i \in DOMAIN fin.result.payloads :
         fin.result.payloads[i].text = "Error: " \o line.text

\* C27: data left in the buffer without a newline when the child exits is
\* handed to the line handler as one final line before the exit handler
\* assembles the result: the result shows the line's callback, its text and
\* its session id (on the line null the handler throws, as on any line null)
C27_UnterminatedDataIsFlushed ==
  [][\A r \in RunIds :
       (PtyExitHandled(r) /\ HasUnterminatedData(runs[r])) =>
         IF Throws(runs[r].dataBuffer[1])
         THEN /\ runs'[r].threw
              /\ runs'[r].lineLog = Append(runs[r].lineLog, runs[r].dataBuffer[1])
         ELSE FinalLineContributes(runs[r], runs[r].dataBuffer[1], settled')]_vars

\* a pty run that ended with a text delta in its buffer: the delta was
\* processed last, fired the partial reply and is in the result's text
C27_Witness ==
  /\ variant = "pty"
  /\ settled.used /\ settled.resolved
  /\ HasUnterminatedData(settled)
  /\ IsTextLine(settled.dataBuffer[1])
  /\ settled.lineLog # << >>
  /\ settled.lineLog[Len(settled.lineLog)] = settled.dataBuffer[1]
  /\ settled.callbacks # << >>
  /\ settled.callbacks[Len(settled.callbacks)].cb = "onPartialReply"
  /\ settled.result.payloads # << >>

\* ---- C28
\* a pipe run whose result was assembled by the close handler
ClosedPipeRun(rr) ==
  /\ variant = "pipe"
  /\ rr.used /\ rr.resolved
  /\ rr.child = "exited" /\ ~rr.closePending

ErrorPayloads(result) ==
  {i \in DOMAIN result.payloads : result.payloads[i].isError}

\* the buffered stderr text, trimmed and cut, is in an error payload
StderrInResult(rr) ==
  \E i \in ErrorPayloads(rr.result) :
    Contains(rr.result.payloads[i].text, ": " \o StderrSummary(rr.stderrBuffer))

FailedExit(rr) == rr.exitCode # 0 /\ ~rr.aborted

\* stderr that was buffered is in the result exactly on a failed exit, and
\* no error payload is made on a zero exit or for an aborted run
StderrOnlyOnFailedExit(rr) ==
  /\ rr.stderrBuffer # "" => (StderrInResult(rr) <=> FailedExit(rr))
  /\ ~FailedExit(rr) => ErrorPayloads(rr.result) = {}

\* a failed exit always shows in the result
FailedExitSurfaced(rr) ==
  FailedExit(rr) => ErrorPayloads(rr.result) # {}

\* C28: in the pipe variant buffered stderr output is in the result if and
\* only if the child exited with a non-zero code and the run was not
\* aborted; on a zero exit or an aborted run it is never surfaced, and on a
\* non-zero, non-aborted exit the failure is always surfaced
C28_StderrSurfacedIffFailedExit ==
  /\ \A r \in RunIds :
       ClosedPipeRun(runs[r]) =>
         StderrOnlyOnFailedExit(runs[r]) /\ FailedExitSurfaced(runs[r])
  /\ ClosedPipeRun(settled) =>
       StderrOnlyOnFailedExit(settled) /\ FailedExitSurfaced(settled)

\* ---- C29
\* a pty run whose result was assembled by the exit handler
ExitedPtyRun(rr) ==
  /\ variant = "pty"
  /\ rr.used /\ rr.resolved
  /\ rr.child = "exited" /\ ~rr.closePending

ExitCodePayload(rr) ==
  [text |-> "CLI exited with code " \o ToString(rr.exitCode), isError |-> TRUE]

ExitCodeErrorOnly(rr) ==
  /\ (FailedExit(rr) /\ rr.collectedTexts = << >>) =>
       rr.result.payloads = <<ExitCodePayload(rr)>>
  /\ (rr.collectedTexts # << >> \/ rr.aborted) =>
       ErrorPayloads(rr.result) = {}

\* C29: in the pty variant a non-zero exit of a run that was not aborted
\* and collected no text yields a result whose only payload is an error
\* payload naming the exit code; when text was collected or the run was
\* aborted, no exit-code error payload is added
C29_PtyExitCodeError ==
  /\ \A r \in RunIds : ExitedPtyRun(runs[r]) => ExitCodeErrorOnly(runs[r])
  /\ ExitedPtyRun(settled) => ExitCodeErrorOnly(settled)

\* a pty run that ended with code 1, not aborted, without any text, and
\* whose result is the exit-code error alone
C29_Witness ==
  /\ ExitedPtyRun(settled)
  /\ settled.exitCode = 1
  /\ ~settled.aborted
  /\ settled.collectedTexts = << >>
  /\ settled.lineLog # << >>
  /\ settled.result.payloads = <<ExitCodePayload(settled)>>

\* ------------------------------------------------------ claims C31 .. C40
\* ---- C35
\* a waiter whose promise is still pending
PendingWaiters == {w \in WaiterIds : waiters[w].used /\ waiters[w].value = "pending"}

\* C35: in every reachable state of the registry every pending waiter is in
\* the wait-list of its session key and that key has a registered run, and
\* the wait-list map holds no empty waiter set for any key
C35_WaitersOnlyOnRegisteredKeys ==
  /\ \A w \in PendingWaiters :
       /\ w \in WaitersOf(waiters[w].sessionId)
       /\ MapHas(ACTIVE_CLI_RUNS, waiters[w].sessionId)
  /\ \A k \in DOMAIN CLI_RUN_WAITERS :
       /\ CLI_RUN_WAITERS[k] # {}
       /\ CLI_RUN_WAITERS[k] \subseteq PendingWaiters
       /\ MapHas(ACTIVE_CLI_RUNS, k)

\* a waiter has just timed out, which emptied the wait-list of its key and
\* removed the key, while the other key keeps its run and its waiter
C35_Witness ==
  /\ \E wr \in released : wr.value = "false" /\ ~MapHas(CLI_RUN_WAITERS, wr.sessionId)
                            /\ MapHas(ACTIVE_CLI_RUNS, wr.sessionId)
  /\ PendingWaiters # {}

\* ---- C36
\* the session key the step's registry operation was applied to: the key of
\* the call (register through run, abort, queueMessage, waitForEnd), of the
\* clear made by the run that settled, or of the waiter whose timer fired
OperationKeys ==
  IF lastCall' # NoCall THEN {lastCall'.sid}
  ELSE IF settled'.used THEN {settled'.sessionId}
  ELSE {wr.sessionId : wr \in {x \in released' : x.value = "false"}}

\* what abort touches of a run
AbortState(rr) == <<rr.aborted, rr.abortRequested, rr.kills, rr.isStreaming>>

\* key Y keeps its registered handle and its pending waiters, and the
\* abort of its handle is not invoked
KeyUntouched(Y) ==
  /\ Registered(ACTIVE_CLI_RUNS', Y) = Registered(ACTIVE_CLI_RUNS, Y)
  /\ (IF MapHas(CLI_RUN_WAITERS', Y) THEN CLI_RUN_WAITERS'[Y] ELSE {}) = WaitersOf(Y)
  /\ \A w \in WaitersOf(Y) : waiters'[w] = waiters[w]
  /\ MapHas(ACTIVE_CLI_RUNS, Y) =>
       AbortState(runs'[ACTIVE_CLI_RUNS[Y]]) = AbortState(runs[ACTIVE_CLI_RUNS[Y]])

\* C36: register, clear, abort, waitForEnd (its timeout firing included)
\* and queueMessage applied to session key X never change the registered
\* handle or the pending waiters of another key Y, and never invoke the
\* abort of Y's handle
C36_OtherKeysUntouched ==
  [][\A Y \in Sessions \ OperationKeys : KeyUntouched(Y)]_vars

\* a run was cleared on one key, which released its waiter, while the
\* other key holds a run and a pending waiter
C36_Witness ==
  /\ settled.used
  /\ \E wr \in released : wr.value = "true" /\ wr.sessionId = settled.sessionId
  /\ \E Y \in Sessions \ {settled.sessionId} :
       MapHas(ACTIVE_CLI_RUNS, Y) /\ WaitersOf(Y) # {}

\* ---- C37
\* isStreaming(s) is false for an absent key and for a key whose
\* registered run has had its abort invoked, while isActive(s) is true
StreamingOnlyWhileRegistered ==
  \A s \in Sessions :
    /\ ~MapHas(ACTIVE_CLI_RUNS, s) => ~isCliRunStreaming(s)
    /\ (MapHas(ACTIVE_CLI_RUNS, s) /\ AbortInvoked(runs[ACTIVE_CLI_RUNS[s]])) =>
         isCliRunActive(s) /\ ~isCliRunStreaming(s)

\* the streaming flag of a run, once false, stays false
StreamingNeverResumes ==
  \A r \in RunIds :
    (runs[r].used /\ runs'[r].used /\ ~runs[r].isStreaming) => ~runs'[r].isStreaming

\* the key of an aborted run stays registered until the step in which the
\* run's handler of the process end finalizes it
ActiveUntilExitHandled ==
  \A s \in Sessions :
    (/\ MapHas(ACTIVE_CLI_RUNS, s)
     /\ AbortInvoked(runs[ACTIVE_CLI_RUNS[s]])
     /\ ~MapHas(ACTIVE_CLI_RUNS', s)) =>
      /\ settled'.used
      /\ settled'.id = ACTIVE_CLI_RUNS[s]
      /\ settled'.child # "alive"
      /\ ~settled'.closePending \/ settled'.child = "failed"

\* C37: isStreaming(sessionId) is true only while a run is registered for
\* sessionId; it is false once abort has been invoked on the registered
\* run, although isActive(sessionId) stays true until the process exit is
\* handled, and it never becomes true again for that run
C37_StreamingFlag ==
  /\ []StreamingOnlyWhileRegistered
  /\ [][StreamingNeverResumes /\ ActiveUntilExitHandled]_vars

\* the registered run of a key was aborted through the registry and its
\* child has exited, the exit not being handled yet: active, not streaming
C37_Witness ==
  \E s \in Sessions :
    /\ isCliRunActive(s)
    /\ ~isCliRunStreaming(s)
    /\ runs[ACTIVE_CLI_RUNS[s]].abortRequested
    /\ runs[ACTIVE_CLI_RUNS[s]].child = "exited"
    /\ runs[ACTIVE_CLI_RUNS[s]].closePending

\* ---- C40
\* the step in which finalize runs for the run in slot r whose promise is
\* already resolved: the handler of the second of the two events
SecondFinalize(r) ==
  /\ runs[r].used /\ runs[r].resolved
  /\ settled'.used /\ settled'.id = r

\* C40: in the pipe variant, when the 'error' and the 'close' event are
\* both handled for one run, the result of the run is the one the first of
\* them produced and it is delivered once; the second finalize changes
\* neither the registry nor any waiter, also when a new run has registered
\* the same session key between the two events
C40_SecondFinalizeIsNoOp ==
  [][\A r \in RunIds :
       SecondFinalize(r) =>
         /\ settled'.result = runs[r].result
         /\ settled'.result = SpawnErrorResult(runs[r])
         /\ settled'.finalizes = 2
         /\ released' = {}
         /\ UNCHANGED <<ACTIVE_CLI_RUNS, CLI_RUN_WAITERS, waiters>>]_vars

\* the close event of a run that failed to spawn was handled after a new
\* run had registered the same key and a waiter had joined it: the new
\* registration and the waiter are still there
C40_Witness ==
  /\ variant = "pipe"
  /\ settled.used
  /\ settled.finalizes = 2
  /\ MapHas(ACTIVE_CLI_RUNS, settled.sessionId)
  /\ ACTIVE_CLI_RUNS[settled.sessionId] # settled.id
  /\ WaitersOf(settled.sessionId) # {}

\* ---- C38
RECURSIVE Concat(_)
Concat(texts) ==
  IF texts = << >> THEN "" ELSE texts[1] \o Concat(Tail(texts))

\* the texts of the callbacks cb, in the order the callbacks fired
CallbackTexts(rr, cb) ==
  LET RECURSIVE Pick(_)
      Pick(i) == IF i > Len(rr.callbacks) THEN << >>
                 ELSE (IF rr.callbacks[i].cb = cb THEN <<rr.callbacks[i].text>> ELSE << >>)
                        \o Pick(i + 1)
  IN Pick(1)

\* the texts of the payloads of a result: all of them, or those that are
\* no error payload
PayloadTextsOf(result, withErrors) ==
  LET RECURSIVE Pick(_)
      Pick(i) == IF i > Len(result.payloads) THEN << >>
                 ELSE (IF withErrors \/ ~result.payloads[i].isError
                       THEN <<result.payloads[i].text>> ELSE << >>)
                        \o Pick(i + 1)
  IN Pick(1)

\* the run read no error event and no result event that carries text
NoErrorNoResultText(rr) ==
  \A i \in DOMAIN rr.lineLog :
    LET line == rr.lineLog[i] IN
      line.kind = "json" =>
        /\ line.type # "error"
        /\ line.type = "result" => (line.text = "" \/ line.shape \notin {"object", "string"})

\* a run whose result the handler of the child's end assembled
EndedRun(rr) == ClosedPipeRun(rr) \/ ExitedPtyRun(rr)

\* deltas still buffered at the end are the last text payload and fired no
\* block reply: one block reply per text payload but that one
BufferedTextIsLastPayload(rr) ==
  LET texts == PayloadTextsOf(rr.result, FALSE)
      blocks == CallbackTexts(rr, "onBlockReply")
  IN IF rr.currentTextBuffer # ""
     THEN /\ texts # << >>
          /\ texts[Len(texts)] = rr.currentTextBuffer
          /\ blocks = SubSeq(texts, 1, Len(texts) - 1)
     ELSE blocks = texts

PartialsEqualPayloads(rr, withErrors) ==
  (EndedRun(rr) /\ NoErrorNoResultText(rr)) =>
    /\ Concat(CallbackTexts(rr, "onPartialReply"))
         = Concat(PayloadTextsOf(rr.result, withErrors))
    /\ BufferedTextIsLastPayload(rr)

\* C38 as stated: in a run that read no error event and no result-event
\* text, the partial-reply texts joined together equal the texts of all
\* payloads of the result joined together
C38_PartialsEqualAllPayloads ==
  /\ \A r \in RunIds : PartialsEqualPayloads(runs[r], TRUE)
  /\ PartialsEqualPayloads(settled, TRUE)

\* C38 amended: in a run that read no error event and no result-event text,
\* the partial-reply texts joined together equal the texts of the result's
\* payloads that are no error payload joined together, also when the child
\* exits or is aborted with deltas buffered after the last block stop:
\* they are one final payload, without a block-reply callback
C38_PartialsEqualTextPayloads ==
  /\ \A r \in RunIds : PartialsEqualPayloads(runs[r], FALSE)
  /\ PartialsEqualPayloads(settled, FALSE)

\* an aborted run that ended with a delta buffered after a completed block
C38_Witness ==
  /\ EndedRun(settled)
  /\ NoErrorNoResultText(settled)
  /\ settled.aborted
  /\ settled.currentTextBuffer # ""
  /\ Len(PayloadTextsOf(settled.result, FALSE)) = 2
  /\ Len(CallbackTexts(settled, "onBlockReply")) = 1

\* ---- C31
\* the same entries of a configuration, listed in every key order
KeyOrders(config) ==
  LET n == Len(config)
      orders == {f \in [1..n -> 1..n] : \A i, j \in 1..n : f[i] = f[j] => i = j}
  IN {[i \in 1..n |-> config[f[i]]] : f \in orders}

\* a configuration as an object can hold it: no key twice
IsObject(config) ==
  \A i, j \in 1..Len(config) : config[i][1] = config[j][1] => i = j

\* several keys of the configuration normalize to one backend id
HasCollidingKeys(config) ==
  \E i, j \in 1..Len(config) :
    i # j /\ normalizeBackendKey(config[i][1]) = normalizeBackendKey(config[j][1])

SameInEveryKeyOrder(call) ==
  \A other \in KeyOrders(call.configured) :
    resolveCliBackendConfig(call.provider, other) = call.resolved

\* C31: resolution does not depend on the key order of the configured
\* backends: the same entries in another order resolve every provider id to
\* the same descriptor, also when several keys normalize to one backend id
C31_ResolutionIgnoresKeyOrder ==
  (Resolving /\ IsObject(backendCall.configured)) => SameInEveryKeyOrder(backendCall)

\* the part that holds: configurations without colliding keys
KeyOrderIrrelevantWithoutCollision ==
  (Resolving /\ IsObject(backendCall.configured)
     /\ ~HasCollidingKeys(backendCall.configured)) => SameInEveryKeyOrder(backendCall)

\* ---- C32
BuildingEnv == agentCall.op = "env"

AddedKeys(backend) == IF backend.env = Undefined THEN {} ELSE DOMAIN backend.env[1]

\* every addition of the descriptor is in the child environment with the
\* descriptor's value, for the additions with a key in the given set
AdditionsPresent(call, keys) ==
  \A k \in AddedKeys(call.backend) \cap keys :
    MapHas(call.env, k) /\ call.env[k] = call.backend.env[1][k]

NoClearedKey(call) ==
  \A k \in ElementsOf(call.backend.clearEnv) : ~MapHas(call.env, k)

\* an inherited variable that is neither added nor cleared is passed on
\* unchanged, and the child environment has no other key
InheritedKept(call) ==
  /\ \A k \in (DOMAIN call.processEnv)
               \ (AddedKeys(call.backend) \cup ElementsOf(call.backend.clearEnv)) :
       MapHas(call.env, k) /\ call.env[k] = call.processEnv[k]
  /\ DOMAIN call.env \subseteq (DOMAIN call.processEnv) \cup AddedKeys(call.backend)

AllKeys == EnvKeys \cup {"TOKEN"}

\* C32 as stated: the child environment holds every env addition of the
\* descriptor, with the descriptor's value, and no key of clearEnv
C32_AllAdditionsAndNoClearedKey ==
  BuildingEnv => AdditionsPresent(agentCall, AllKeys) /\ NoClearedKey(agentCall)

\* C32: the child environment holds every env addition of the descriptor
\* whose key is not in clearEnv, with the descriptor's value also when the
\* key is inherited, and holds no key of clearEnv, inherited or added
C32_AdditionsUnlessCleared ==
  BuildingEnv =>
    /\ AdditionsPresent(agentCall, AllKeys \ ElementsOf(agentCall.backend.clearEnv))
    /\ NoClearedKey(agentCall)
    /\ InheritedKept(agentCall)

C32_Witness ==
  /\ BuildingEnv
  /\ agentCall.processEnv = ("PATH" :> "inherited" @@ "ANTHROPIC_API_KEY" :> "inherited")
  /\ agentCall.backend.env = <<("PATH" :> "added" @@ "ANTHROPIC_API_KEY" :> "added")>>
  /\ agentCall.backend.clearEnv = <<<<"ANTHROPIC_API_KEY">>>>
  /\ agentCall.env = ("PATH" :> "added")

\* ---- C33
RunningCli == agentCall.op = "runCli"

Positions(trace, event) == {i \in 1..Len(trace) : trace[i] = event}

CleanupFailed(trace) == Positions(trace, "error") \cup Positions(trace, "timeout") # {}

\* the kill command of a resume-style run is started, and has settled,
\* before the child is started
CleanupBeforeChild(call) ==
  (call.resume /\ Positions(call.trace, "spawn") # {}) =>
    \A s \in Positions(call.trace, "spawn") :
      \E k \in Positions(call.trace, "pkill") :
        /\ k + 1 < s
        /\ call.trace[k + 1] \in CleanupOutcomes

CleanupOnlyOnResume(call) ==
  /\ Positions(call.trace, "pkill") # {} => call.resume
  /\ (call.resume /\ call.pc \notin {"suspended"}) => Positions(call.trace, "pkill") # {}

\* after a failed kill command the run goes on: it is at the start of the
\* child, runs it, or has returned the child's result
CleanupFailureIgnored(call) ==
  /\ call.pc # "thrown"
  /\ CleanupFailed(call.trace) => call.pc \in {"exec", "running", "returned"}
  /\ call.pc = "returned" => Positions(call.trace, "spawn") # {}

\* C33: a resume-style run attempts to terminate the stale processes of the
\* native session id before it starts its child, no other run attempts it,
\* and a kill command that fails or times out does not fail the run
C33_StaleProcessCleanup ==
  RunningCli =>
    /\ CleanupBeforeChild(agentCall)
    /\ CleanupOnlyOnResume(agentCall)
    /\ CleanupFailureIgnored(agentCall)

C33_Witness ==
  /\ RunningCli
  /\ agentCall.runner = "pi-cli-runner"
  /\ agentCall.resume
  /\ agentCall.trace = <<"pkill", "timeout", "spawn", "0">>
  /\ agentCall.pc = "returned"

\* the same through cli-runner.ts, and a run that is not resume-style
CleanupWitnessQueuedRun ==
  /\ RunningCli
  /\ agentCall.runner = "cli-runner"
  /\ agentCall.trace = <<"reap", "pkill", "error", "spawn", "0">>

CleanupWitnessFreshRun ==
  /\ RunningCli
  /\ ~agentCall.resume
  /\ agentCall.trace = <<"spawn", "0">>

\* ---- C34
Count(list, c) == Cardinality({i \in 1..Len(list) : list[i] = c})

\* how often the entry of a call is in the files
Entries(c) ==
  IF appendCalls[c].sessionId = ""
  THEN 0
  ELSE Count(transcripts[appendCalls[c].sessionId], c)

NowhereElse(c) ==
  \A s \in Sessions \ {appendCalls[c].sessionId} : Count(transcripts[s], c) = 0

AppendRan(c) == appendCalls[c].appends > 0

\* the append of a call runs once, after the call has the lock
AppendRunsOnce ==
  \A c \in AppendCallIds :
    /\ appendCalls[c].appends <= 1
    /\ AppendRan(c) <=> (appendCalls[c].pc \in {"locked", "done"} /\ appendCalls[c].sessionId # "")
    /\ NowhereElse(c)

EveryEntryOnce == \A c \in AppendCallIds : AppendRan(c) => Entries(c) = 1

EntryOnceUnlessFailed ==
  \A c \in AppendCallIds :
    /\ (AppendRan(c) /\ appendCalls[c].ok) => Entries(c) = 1
    /\ ~(AppendRan(c) /\ appendCalls[c].ok) => Entries(c) = 0

\* a lock is resolved when its call returns, whatever the append returned;
\* a call waits only for a lock that is held or resolved, and the map holds
\* only the lock of a call that has not returned
LockAlwaysReleased ==
  /\ \A c \in AppendCallIds :
       /\ (appendCalls[c].pc = "done" /\ AppendRan(c)) => appendCalls[c].resolved
       /\ appendCalls[c].pc = "pending" =>
            LET owner == appendCalls[appendCalls[c].pending]
            IN /\ owner.sessionId = appendCalls[c].sessionId
               /\ owner.pc = "locked" \/ owner.resolved
  /\ \A s \in DOMAIN sessionWriteLocks :
       LET owner == appendCalls[sessionWriteLocks[s]]
       IN owner.pc = "locked" /\ owner.sessionId = s

\* one step runs at most one append, from start to end, and leaves the
\* entries that are in the files as they are
TotalAppends(calls) ==
  LET RECURSIVE Sum(_)
      Sum(n) == IF n = 0 THEN 0 ELSE calls[n].appends + Sum(n - 1)
  IN Sum(MaxAppends)

OneAppendAtATime ==
  /\ TotalAppends(appendCalls') <= TotalAppends(appendCalls) + 1
  /\ \A s \in Sessions :
       /\ Len(transcripts'[s]) <= Len(transcripts[s]) + 1
       /\ SubSeq(transcripts'[s], 1, Len(transcripts[s])) = transcripts[s]
  /\ \A s, t \in Sessions :
       (transcripts'[s] # transcripts[s] /\ transcripts'[t] # transcripts[t]) => s = t

\* C34 as stated: the entry of every call whose append ran is in the
\* transcript exactly once, and every lock is released
C34_EveryEntryAppendedOnce ==
  AppendRunsOnce /\ EveryEntryOnce /\ LockAlwaysReleased

\* C34: concurrent appendMessageToTranscriptAsync calls on one session are
\* serialized: appends run one at a time and each runs to its end before
\* the next starts, the append of every call runs once and its entry is in
\* the transcript exactly once unless the append failed, and the lock is
\* released after a failed append as after any other
C34_AppendsSerialized ==
  /\ [](AppendRunsOnce /\ EntryOnceUnlessFailed /\ LockAlwaysReleased)
  /\ [][OneAppendAtATime]_vars

\* three calls on one session, the second of which failed: all returned
C34_Witness ==
  /\ \A c \in AppendCallIds : appendCalls[c].pc = "done" /\ appendCalls[c].sessionId = "s1"
  /\ appendCalls[1].ok /\ ~appendCalls[2].ok /\ appendCalls[3].ok
  /\ appendCalls[2].resolved
  /\ transcripts["s1"] = <<1, 3>>
  /\ sessionWriteLocks = EmptyMap

\* two calls that have the lock of one session together: the calls that
\* waited for the same lock
TwoInsideLock ==
  \E c, d \in AppendCallIds :
    /\ c # d
    /\ appendCalls[c].pc = "locked" /\ appendCalls[d].pc = "locked"
    /\ appendCalls[c].sessionId = appendCalls[d].sessionId

\* ---- C39
registryVars == <<ACTIVE_CLI_RUNS, CLI_RUN_WAITERS, runs, waiters>>

\* with no embedded run on the key, a step is a step of the router's
\* operation exactly when it is a step of the CLI registry's operation
RouterStepIsCliStep(s) ==
  /\ abortEmbeddedPiRun(s, NoEmbedded) <=> abortCliRun(s)
  /\ queueEmbeddedPiMessage(s, "msg", NoEmbedded) <=> queueCliMessage(s, "msg")
  /\ \A t \in RouterWaitTimeouts \cup {Omitted} :
       waitForEmbeddedPiRunEnd(s, t, NoEmbedded) <=> waitForCliRunEnd(s, t)

RouterQueriesAreCliQueries(s) ==
  /\ isEmbeddedPiRunActive(s, NoEmbedded) = isCliRunActive(s)
  /\ isEmbeddedPiRunStreaming(s, NoEmbedded) = isCliRunStreaming(s)

\* with no run of either kind on the key, the router's operations return
\* false, false, false, false and true and leave the registry as it is
NothingActiveAnswers(s) ==
  ~isCliRunActive(s) =>
    /\ abortEmbeddedPiRun(s, NoEmbedded) =>
         lastCall'.ret = "false" /\ UNCHANGED registryVars
    /\ queueEmbeddedPiMessage(s, "msg", NoEmbedded) =>
         lastCall'.ret = "false" /\ UNCHANGED registryVars
    /\ \A t \in RouterWaitTimeouts \cup {Omitted} :
         waitForEmbeddedPiRunEnd(s, t, NoEmbedded) =>
           lastCall'.ret = "true" /\ UNCHANGED registryVars
    /\ ~isEmbeddedPiRunActive(s, NoEmbedded)
    /\ ~isEmbeddedPiRunStreaming(s, NoEmbedded)

\* C39: for a key with no embedded run, abort, isActive, isStreaming,
\* queueMessage and waitForEnd through the router do and return what the
\* CLI registry's operation does and returns in the same state; with no CLI
\* run either they return false, false, false, false and true and change
\* nothing
C39_RouterFallsBackToCli ==
  [][\A s \in Sessions :
       /\ RouterStepIsCliStep(s)
       /\ RouterQueriesAreCliQueries(s)
       /\ NothingActiveAnswers(s)]_vars

\* a wait through the router, with a timeout, on a key that has a CLI run
\* and no embedded run: a waiter with that timeout is registered
C39_Witness ==
  /\ lastCall.op = "waitForEnd"
  /\ lastCall.ret = "pending"
  /\ isCliRunActive(lastCall.sid)
  /\ \E w \in WaitersOf(lastCall.sid) : waiters[w].timeoutArg = <<250>>

\* an abort through the router that reached the CLI run, and a wait with
\* nothing active
RouterAbortedCliRun ==
  /\ lastCall.op = "abort"
  /\ lastCall.ret = "true"
  /\ lastCall.signals = 1

RouterWaitNothingActive ==
  /\ lastCall.op = "waitForEnd"
  /\ lastCall.ret = "true"
  /\ ACTIVE_CLI_RUNS = EmptyMap



====
